---- MODULE Spec2Model ----
(***************************************************************************)
(* Silverfood recipe health analyzer: the web front-end (static/script.js),*)
(* the extension popup, the background service worker, the content scripts *)
(* and the request pipeline of the API they call.                          *)
(*                                                                         *)
(* Each component has its own next-state relation and specification; the   *)
(* variables of the other components keep their initial values under it.   *)
(*                                                                         *)
(* Strings the code inspects character by character (URLs, pasted text,    *)
(* ingredient lines) are sequences of one-character strings, so that trim, *)
(* startsWith, includes, toLowerCase and length are computed, not assumed. *)
(***************************************************************************)
EXTENDS Integers, Sequences, FiniteSets, TLC

VARIABLES
    \* ---- web front-end (static/script.js, static/index.html)
    activeButtons,      \* ids of the .tab-btn elements carrying class "active"
    activePanes,        \* ids of the .tab-pane elements carrying class "active"
    analyses,           \* the calls of analyzeRecipe / analyzeText awaiting their response
    lastRequest,        \* the fetch the front-end issued last
    lastOutcome,        \* how the call that ended last ended, and on what response
    analyzeBtnDisabled, \* button#analyzeBtn .disabled
    analyzeTextBtnDisabled, \* #analyzeTextBtn .disabled (the button analyzeText drives)
    btnText,            \* .btn-text textContent
    loaderDisplay,      \* .loader style.display
    loadingMessage,     \* number of div#loadingMessage elements in the document
    healthTips,         \* the tips list has been loaded (healthTips.length > 0)
    tipInterval,        \* the setInterval handle of the tips is set
    resultsDisplay,     \* div#results style.display
    resultsContent,     \* div#results innerHTML: the page's panel, or a loading notice
    errorDisplay,       \* div#error style.display
    errorMessage,       \* p#errorMessage textContent
    \* ---- the ingredient list of the web front-end (div#allIngredients)
    ingredientItems,    \* the items rendered last, one per ingredient of the response
    renderedBy,         \* the function that rendered them
    \* ---- content scripts (content.js, unnamed/part_004, unnamed/part_005)
    pageElements,       \* the page: selector -> texts of the elements it matches
    extractResponse,    \* what the extractRecipe listener passed to sendResponse last
    quickResult,        \* what showQuickResult painted last on the floating button
    \* ---- extension popup (unnamed/part_000, popup.js, unnamed/part_001)
    popupVariant,       \* the popup script that is loaded; "none": the popup is closed
    popupTabUrl,        \* url of the active tab, as chrome.tabs.query reports it
    popupChecked,       \* checkCurrentPage has run
    popupBtnDisabled,   \* button#analyzeBtn .disabled
    popupView,          \* what div#results holds: empty, loading, results or error
    popupMessage,       \* the text of the error view, in parts
    popupAnalyses,      \* the calls of analyzeCurrentPage that have not returned
    lastPopupRequest,   \* the fetch the popup issued last
    lastPopupOutcome,   \* the call of analyzeCurrentPage that returned last
    \* ---- background service worker (background.js)
    tabUrl,             \* tab id -> the url the tab shows
    badgeText,          \* tab id -> text of the toolbar badge of the tab
    badgeColor,         \* tab id -> background colour of the badge of the tab
    debugMode,          \* this.debugMode
    activeRequests,     \* the quick-check requests awaiting their response
    lastBgRequest,      \* the url of the quick check the worker fetched last
    \* ---- the API's request pipeline (spec section 4.6)
    requests,           \* the requests received: where each came from, and its stage
    \* ---- the API layer's admission of requests (spec sections 4.6, 5 and 7)
    received,           \* number of analysis requests that have arrived
    requestCounts,      \* client -> requests counted in the current rate-limit window
    gateAnswer,         \* the client of the request that arrived last, and its answer
    waiting,            \* accepted requests that wait for a free analysis slot
    fetching,           \* analyses in flight whose page the Fetcher is retrieving
    working,            \* analyses in flight past the Fetcher (extracting .. aggregating)
    \* ---- the Nutrition Resolver at work for one analysis (spec sections 4.4 and 7)
    scoringStatus,      \* "idle", "scoring" or "responded"
    ingredientNames,    \* the parsed ingredient names of the analysis, in recipe order
    scoredIngredients,  \* position -> the ingredient as resolved, or NotResolved
    nutritionCache,     \* the names the process-wide cache holds
    \* ---- the explanation list of the web front-end (div#healthExplanation)
    explanationItems,   \* the .explanation-item elements, each with the buttons it holds
    healthChecks,       \* the fetches of /health awaiting their answer
    openaiConfirmed,    \* some answer of /health has carried openai_available = true
    \* ---- recipe-page detection of the extension's components
    detected,           \* component -> the page it checked last, and its isRecipePage
    \* ---- the floating analyze button of the content script (content.js)
    contentStage,       \* "loading", "ready" (onPageReady has run) or "cleaned" (performCleanup has)
    floatingButton,     \* this.floatingButton is non-null
    buttonsAttached,    \* number of #silverfood-floating-btn elements in the document
    clickListener,      \* the click listener of the button is registered
    buttonDisplay,      \* style.display of the button
    buttonAnalyzing,    \* the button carries class "analyzing"
    recheckTimers,      \* pending timeouts of the popstate handler
    sentMessages,       \* chrome.runtime messages of the button awaiting the worker's answer
    clickAnswer,        \* the response the callback of the click received last
    notification,       \* type of the .silverfood-notification shown, "" if none
    \* ---- API-origin detection of the popup (popup.js, unnamed/part_000)
    apiUrl,             \* this.apiUrl of the popup
    runIndex,           \* run of getApiUrlFromConfig -> position in defaultUrls it awaits
    okAnswered,         \* positions of defaultUrls whose /health has answered ok to a run
    notOkAnswered,      \* positions of defaultUrls whose /health has failed a run
    listenersSet,       \* setupEventListeners has run
    analysisOrigins,    \* the apiUrl of each analysis request issued
    openedWebApp,       \* the url of the tab #openWebApp created last, "" if none
    \* ---- the health goals of the web front-end (div#healthGoals, localStorage)
    displayedGoals,     \* data-goal-key of the .goal-item children of the container, in order
    goalScores,         \* the healthGoals object displayHealthGoals rendered last
    storedOrder,        \* localStorage item 'healthGoalsOrder', parsed
    draggedElement,     \* the goal item being dragged, "null" if none
    lastOver,           \* the goal item whose dragover handler ran last in this drag
    dropped,            \* the drop event of this drag has fired
    \* ---- the request tracking of the background worker (background.js:147-181, 283-307)
    openTabs,           \* ids of the tabs that have not been removed
    clock,              \* Date.now()
    quickChecks,        \* the calls of getQuickHealthScore: tab, requestId, stage, controller, timer
    trackedRequests,    \* this.activeRequests by key: requestId -> the call whose controller it holds
    badgeCalls          \* the calls of setHealthScoreBadge: the tab, and whether it was removed

webVars == <<activeButtons, activePanes, analyses, lastRequest, lastOutcome,
             analyzeBtnDisabled, analyzeTextBtnDisabled, btnText, loaderDisplay,
             loadingMessage, healthTips, tipInterval, resultsDisplay, resultsContent,
             errorDisplay, errorMessage>>

renderVars == <<ingredientItems, renderedBy>>

contentVars == <<pageElements, extractResponse, quickResult>>

popupVars == <<popupVariant, popupTabUrl, popupChecked, popupBtnDisabled, popupView,
               popupMessage, popupAnalyses, lastPopupRequest, lastPopupOutcome>>

bgVars == <<tabUrl, badgeText, badgeColor, debugMode, activeRequests, lastBgRequest>>

apiVars == <<requests>>

gateVars == <<received, requestCounts, gateAnswer, waiting, fetching, working>>

\* the components added to the first six
resolverVars == <<scoringStatus, ingredientNames, scoredIngredients, nutritionCache>>

explainVars == <<explanationItems, healthChecks, openaiConfirmed>>

detectVars == <<detected>>

floatVars == <<contentStage, floatingButton, buttonsAttached, clickListener, buttonDisplay,
               buttonAnalyzing, recheckTimers, sentMessages, clickAnswer, notification>>

originVars == <<apiUrl, runIndex, okAnswered, notOkAnswered, listenersSet, analysisOrigins,
               openedWebApp>>

trackVars == <<openTabs, clock, quickChecks, trackedRequests, badgeCalls>>

goalVars == <<displayedGoals, goalScores, storedOrder, draggedElement, lastOver, dropped>>

moreVars == <<gateVars, resolverVars, explainVars, detectVars, floatVars, originVars,
              goalVars, trackVars>>

vars == <<webVars, renderVars, contentVars, popupVars, bgVars, apiVars, moreVars>>

\* what an action of one component leaves alone: the other components
notWeb == <<renderVars, contentVars, popupVars, bgVars, apiVars, moreVars>>
notRender == <<webVars, contentVars, popupVars, bgVars, apiVars, moreVars>>
notContent == <<webVars, renderVars, popupVars, bgVars, apiVars, moreVars>>
notPopup == <<webVars, renderVars, contentVars, bgVars, apiVars, moreVars>>
notBg == <<webVars, renderVars, contentVars, popupVars, apiVars, moreVars>>
notApi == <<webVars, renderVars, contentVars, popupVars, bgVars, moreVars>>
firstVars == <<webVars, renderVars, contentVars, popupVars, bgVars, apiVars>>
notGate == <<firstVars, resolverVars, explainVars, detectVars, floatVars, originVars, goalVars,
    trackVars>>
notResolver == <<firstVars, gateVars, explainVars, detectVars, floatVars, originVars, goalVars,
    trackVars>>
notExplain == <<firstVars, gateVars, resolverVars, detectVars, floatVars, originVars, goalVars,
    trackVars>>
notDetect == <<firstVars, gateVars, resolverVars, explainVars, floatVars, originVars, goalVars,
    trackVars>>
notFloat == <<firstVars, gateVars, resolverVars, explainVars, detectVars, originVars, goalVars,
    trackVars>>
notOrigin == <<firstVars, gateVars, resolverVars, explainVars, detectVars, floatVars, goalVars,
    trackVars>>
notGoals == <<firstVars, gateVars, resolverVars, explainVars, detectVars, floatVars, originVars,
    trackVars>>
notTrack == <<firstVars, gateVars, resolverVars, explainVars, detectVars, floatVars, originVars,
    goalVars>>

-----------------------------------------------------------------------------
(* Bounds of the model.                                                    *)

\* calls of analyzeRecipe / analyzeText that may await a response at one time
MaxAnalyses == 2
\* ingredients in one response
MaxIngredients == 2
\* elements of a page that match an ingredient selector
MaxElements == 2
\* quick-check requests of the background worker that may await a response at one time
MaxQuickChecks == 2
\* requests the API receives
MaxRequests == 2
\* analysis requests that arrive at the API layer
MaxReceived == 10
\* lines of health_explanation in one response
MaxExplanations == 2
\* fetches of /health that may await their answer at one time
MaxHealthChecks == 2

\* all sequences over S of length at most n
SeqsUpTo(S, n) == UNION {[1..k -> S] : k \in 0..n}

-----------------------------------------------------------------------------
(* String helpers: String.prototype.trim / startsWith / includes.          *)

IsWhitespace(c) == c \in {" ", "\n", "\t"}

RECURSIVE TrimStart(_)
TrimStart(s) ==
    IF s # <<>> /\ IsWhitespace(Head(s)) THEN TrimStart(Tail(s)) ELSE s

RECURSIVE TrimEnd(_)
TrimEnd(s) ==
    IF s # <<>> /\ IsWhitespace(s[Len(s)])
    THEN TrimEnd(SubSeq(s, 1, Len(s) - 1))
    ELSE s

Trim(s) == TrimEnd(TrimStart(s))

StartsWith(s, prefix) ==
    /\ Len(s) >= Len(prefix)
    /\ SubSeq(s, 1, Len(prefix)) = prefix

Includes(s, part) ==
    \E i \in 1..(Len(s) - Len(part) + 1) : SubSeq(s, i, i + Len(part) - 1) = part

UpperLetters == <<"A", "B", "C", "D", "E", "F", "G", "H", "I", "J", "K", "L", "M", "N", "O", "P", "Q", "R", "S", "T", "U", "V", "W", "X", "Y", "Z">>
LowerLetters == <<"a", "b", "c", "d", "e", "f", "g", "h", "i", "j", "k", "l", "m", "n", "o", "p", "q", "r", "s", "t", "u", "v", "w", "x", "y", "z">>

\* String.prototype.toLowerCase
ToLowerCase(s) ==
    [k \in DOMAIN s |->
        IF \E j \in DOMAIN UpperLetters : UpperLetters[j] = s[k]
        THEN LowerLetters[CHOOSE j \in DOMAIN UpperLetters : UpperLetters[j] = s[k]]
        ELSE s[k]]

HttpPrefix == <<"h", "t", "t", "p", ":", "/", "/">>
HttpsPrefix == <<"h", "t", "t", "p", "s", ":", "/", "/">>

-----------------------------------------------------------------------------
(* Inputs of the web front-end.                                            *)

\* "2 uien, 300g gehakt." : 20 characters
Text20 == <<"2", " ", "u", "i", "e", "n", ",", " ", "3", "0", "0", "g", " ",
            "g", "e", "h", "a", "k", "t", ".">>
\* 19 characters between blanks: 21 characters typed, 19 after trim
Text19Padded == <<" ">> \o SubSeq(Text20, 1, 19) \o <<"\n">>
\* "2 uien"
TextShort == <<"2", " ", "u", "i", "e", "n">>
TextBlank == <<" ", "\n">>

TextInputs == {<<>>, TextBlank, TextShort, Text19Padded, Text20}

\* "https://ah.nl/r", "http://ah.nl/r", "ftp://ah.nl/r", "ah.nl/r"
UrlHttps == HttpsPrefix \o <<"a", "h", ".", "n", "l", "/", "r">>
UrlHttp == HttpPrefix \o <<"a", "h", ".", "n", "l", "/", "r">>
UrlFtp == <<"f", "t", "p", ":", "/", "/", "a", "h", ".", "n", "l", "/", "r">>
UrlBare == <<"a", "h", ".", "n", "l", "/", "r">>

UrlInputs == {<<>>, UrlBare, UrlFtp, UrlHttp, <<" ">> \o UrlHttps}

TabPanes == {"url-tab", "text-tab"}

TabButtons == {"url-tab-btn", "text-tab-btn"}

\* the data-tab attribute of a tab button
dataTab(button) == IF button = "url-tab-btn" THEN "url-tab" ELSE "text-tab"

tabVars == <<activeButtons, activePanes>>

\* document.querySelector('.tab-pane.active'): the id of the first pane in
\* document order that carries the class, "none" for null
activePane ==
    IF "url-tab" \in activePanes THEN "url-tab"
    ELSE IF "text-tab" \in activePanes THEN "text-tab"
    ELSE "none"

\* what triggers an analysis: the Analyze button, Enter in the URL field,
\* Ctrl+Enter in the textarea, Alt+A anywhere
Triggers == {"click", "enter", "ctrlEnter", "altA"}

\* bodies a response may carry
\*   RecipeAnalysis : the analysis object of /analyse and /analyse-text
\*                    (recipe_title, health_score, all_ingredients, ...; no success)
\*   Envelope       : an object with success = true
\*   Failure        : an object with success = false and a message
\*   Detail         : {detail: string}
\*   Null           : the JSON value null
\*   Unparsable     : not JSON
Bodies == {"RecipeAnalysis", "Envelope", "Failure", "Detail", "Null", "Unparsable"}

NoRequest == [endpoint |-> "none", payload |-> <<>>]
NoOutcome == [fn |-> "none", ok |-> FALSE, body |-> "none", outcome |-> "none"]

-----------------------------------------------------------------------------
(* Web front-end: static/script.js.                                        *)
(* script.js holds two copies of analyzeRecipe, displayResults, showError  *)
(* and the loading helpers; the copies agree on everything modelled here   *)
(* and the definitions below follow the first copy. analyzeText exists     *)
(* once.                                                                   *)

WebInit ==
    /\ activeButtons = {"url-tab-btn"}
    /\ activePanes = {"url-tab"}
    /\ analyses = <<>>
    /\ lastRequest = NoRequest
    /\ lastOutcome = NoOutcome
    /\ analyzeBtnDisabled = FALSE
    /\ analyzeTextBtnDisabled = FALSE
    /\ btnText = "Analyseer Recept"
    /\ loaderDisplay = "none"
    /\ loadingMessage = 0
    /\ healthTips = FALSE
    /\ tipInterval = FALSE
    /\ resultsDisplay = "none"
    /\ resultsContent = "panel"
    /\ errorDisplay = "none"
    /\ errorMessage = ""

buttonVars == <<analyzeBtnDisabled, btnText, loaderDisplay>>
loadingVars == <<loadingMessage, tipInterval>>
errorVars == <<errorDisplay, errorMessage>>
resultsVars == <<resultsDisplay, resultsContent>>

\* hideLoadingMessage, called calls times in a row: stopHealthTips, then the
\* first div#loadingMessage of the document is removed, if there is one
hideLoadingMessage(calls) ==
    /\ tipInterval' = FALSE
    /\ loadingMessage' = IF loadingMessage > calls THEN loadingMessage - calls ELSE 0

\* showError(message, title): the error panel is shown; its call of
\* hideLoadingMessage is counted by the handler that calls showError
showError(message) ==
    /\ errorMessage' = message
    /\ errorDisplay' = "block"

\* the finally block of analyzeRecipe; its call of hideLoadingMessage is
\* counted by the handler
resetUI ==
    /\ analyzeBtnDisabled' = FALSE
    /\ btnText' = "Analyseer Recept"
    /\ loaderDisplay' = "none"

\* a click handler that adds 'active' to the target pane without removing
\* it from the other panes
TabClickKeepingPanes(button, classes) ==
    [buttons |-> (classes.buttons \ TabButtons) \cup {button},
     panes |-> classes.panes \cup {dataTab(button)}]

\* the click handler of a tab button (script.js:48-59, and the same handler
\* of the inline script of index.html:269-280), on the elements that carry
\* 'active': it is removed from every button and pane, then added to the
\* button clicked and to the pane of its data-tab
TabClick(button, classes) ==
    [buttons |-> (classes.buttons \ TabButtons) \cup {button},
     panes |-> (classes.panes \ TabPanes) \cup {dataTab(button)}]

\* a click on a tab button: the handler of script.js runs, then the inline one
SwitchTab(button) ==
    /\ LET classes == TabClick(button, TabClick(button, [buttons |-> activeButtons,
                                                         panes |-> activePanes]))
       IN /\ activeButtons' = classes.buttons
          /\ activePanes' = classes.panes
    /\ UNCHANGED <<analyses, lastRequest, lastOutcome, analyzeTextBtnDisabled,
                   healthTips, buttonVars, loadingVars, errorVars, resultsVars>>
    /\ UNCHANGED notWeb

\* window load: loadHealthTips fills healthTips (from the file or the fallback)
LoadHealthTips ==
    /\ ~healthTips
    /\ healthTips' = TRUE
    /\ UNCHANGED <<tabVars, analyses, lastRequest, lastOutcome,
                   analyzeTextBtnDisabled, buttonVars, loadingVars, errorVars,
                   resultsVars>>
    /\ UNCHANGED notWeb

\* a trigger reaches its handler: a disabled button receives no click
TriggerEnabled(trigger) == trigger = "click" => ~analyzeBtnDisabled

Outcome(fn, ok, body, outcome) ==
    [fn |-> fn, ok |-> ok, body |-> body, outcome |-> outcome]

RemoveAt(seq, i) == SubSeq(seq, 1, i - 1) \o SubSeq(seq, i + 1, Len(seq))

MinTextLength == 20

\* the validation of analyzeRecipe: "" when the input passes, else the message
RecipeInputError(isUrlTab, inputData) ==
    IF isUrlTab
    THEN IF inputData = <<>> THEN "Voer eerst een recept URL in"
         ELSE IF ~StartsWith(inputData, HttpPrefix) /\ ~StartsWith(inputData, HttpsPrefix)
              THEN "De URL moet beginnen met http:// of https://"
              ELSE ""
    ELSE IF inputData = <<>> THEN "Voer eerst recept tekst in"
         ELSE IF Len(inputData) < MinTextLength
              THEN "De recept tekst is te kort."
              ELSE ""

\* analyzeRecipe up to its first await, with recipeUrl and recipeText holding
\* url and text: validation, loading state, fetch
AnalyzeRecipeStart(trigger, url, text) ==
    /\ TriggerEnabled(trigger)
    /\ LET isUrlTab == activePane = "url-tab"
           inputData == IF isUrlTab THEN Trim(url) ELSE Trim(text)
           problem == RecipeInputError(isUrlTab, inputData)
       IN IF problem # ""
          THEN \* showError, return; the finally block runs
               /\ showError(problem)
               /\ resetUI
               /\ hideLoadingMessage(2)
               /\ lastOutcome' = Outcome("analyzeRecipe", FALSE, "none", "invalid")
               /\ UNCHANGED <<analyses, lastRequest, resultsVars>>
          ELSE /\ Len(analyses) < MaxAnalyses
               /\ analyzeBtnDisabled' = TRUE
               /\ btnText' = "Recept wordt geanalyseerd..."
               /\ loaderDisplay' = "block"
               /\ errorDisplay' = "none"
               /\ resultsDisplay' = "none"
               /\ loadingMessage' = loadingMessage + 1
               /\ tipInterval' = healthTips
               /\ lastRequest' =
                      [endpoint |-> IF isUrlTab THEN "/analyse" ELSE "/analyse-text",
                       payload |-> inputData]
               /\ analyses' = Append(analyses, "analyzeRecipe")
               /\ UNCHANGED <<errorMessage, resultsContent, lastOutcome>>
    /\ UNCHANGED <<tabVars, healthTips, analyzeTextBtnDisabled>>
    /\ UNCHANGED notWeb

\* messages of analyzeRecipe's catch block and of displayResults
NetworkMessage == "Geen internetverbinding. Controleer uw verbinding en probeer opnieuw."
InvalidJsonMessage == "Ongeldige response van server. Probeer opnieuw."
InvalidStructureMessage == "Ongeldige response structuur van server."
DisplayFailedMessage == "Analyse mislukt"
FailureMessage == "message"
HttpErrorMessage == "HTTP status"
DetailMessage == "detail"

\* data.success of a parsed body: only an envelope with success = true is truthy
BodySuccess(body) == body = "Envelope"

\* displayResults(data): without a truthy data.success it shows an error and returns
displayResults(body) ==
    IF ~BodySuccess(body)
    THEN /\ showError(IF body = "Failure" THEN FailureMessage ELSE DisplayFailedMessage)
         /\ UNCHANGED resultsVars
    ELSE /\ resultsDisplay' = "block"
         /\ UNCHANGED <<errorVars, resultsContent>>

\* the error analyzeRecipe throws on a response, "" when it reaches displayResults
RecipeResponseError(ok, body) ==
    IF ~ok THEN (IF body = "Detail" THEN DetailMessage ELSE HttpErrorMessage)
    ELSE IF body = "Unparsable" THEN InvalidJsonMessage
    ELSE IF body = "Null" THEN InvalidStructureMessage
    ELSE ""

\* the awaits of analyzeRecipe settle (fetch, then response.json(); nothing it
\* shares changes in between) and the rest of the function runs
AnalyzeRecipeSettled(i) ==
    /\ i \in DOMAIN analyses
    /\ analyses[i] = "analyzeRecipe"
    /\ analyses' = RemoveAt(analyses, i)
    /\ \/ \* fetch rejects: catch, finally
          /\ showError(NetworkMessage)
          /\ resetUI
          /\ hideLoadingMessage(2)
          /\ lastOutcome' = Outcome("analyzeRecipe", FALSE, "none", "error")
          /\ UNCHANGED resultsVars
       \/ \E ok \in BOOLEAN, body \in Bodies :
            IF RecipeResponseError(ok, body) # ""
            THEN /\ showError(RecipeResponseError(ok, body))
                 /\ resetUI
                 /\ hideLoadingMessage(2)
                 /\ lastOutcome' = Outcome("analyzeRecipe", ok, body, "error")
                 /\ UNCHANGED resultsVars
            ELSE /\ displayResults(body)
                 /\ resetUI
                 /\ hideLoadingMessage(IF BodySuccess(body) THEN 1 ELSE 2)
                 /\ lastOutcome' = Outcome("analyzeRecipe", ok, body,
                        IF BodySuccess(body) THEN "results" ELSE "error")
    /\ UNCHANGED <<tabVars, lastRequest, healthTips, analyzeTextBtnDisabled>>
    /\ UNCHANGED notWeb

TextFailedMessage == "Er is een fout opgetreden bij het analyseren van de tekst."
TextMissingMessage == "Voer eerst de recept tekst in."

\* analyzeText up to its first await, with recipeText holding text: only an
\* empty text is refused. The function drives a button #analyzeTextBtn and is
\* called by the Ctrl+Enter listener of script.js:2037-2042; it is modelled on
\* a page that has the button (static/index.html has none).
AnalyzeTextStart(text) ==
    /\ IF Trim(text) = <<>>
       THEN /\ showError(TextMissingMessage)
            /\ hideLoadingMessage(1)
            /\ lastOutcome' = Outcome("analyzeText", FALSE, "none", "invalid")
            /\ UNCHANGED <<analyses, lastRequest, analyzeTextBtnDisabled, resultsVars>>
       ELSE /\ Len(analyses) < MaxAnalyses
            /\ analyzeTextBtnDisabled' = TRUE
            /\ resultsContent' = "loading"
            /\ lastRequest' = [endpoint |-> "/analyse-text", payload |-> Trim(text)]
            /\ analyses' = Append(analyses, "analyzeText")
            /\ UNCHANGED <<resultsDisplay, errorVars, loadingVars, lastOutcome>>
    /\ UNCHANGED <<tabVars, healthTips, buttonVars>>
    /\ UNCHANGED notWeb

\* the awaits of analyzeText settle and the rest of the function runs
AnalyzeTextSettled(i) ==
    /\ i \in DOMAIN analyses
    /\ analyses[i] = "analyzeText"
    /\ analyses' = RemoveAt(analyses, i)
    /\ analyzeTextBtnDisabled' = FALSE
    /\ \/ \* fetch rejects: catch, finally
          /\ showError(TextFailedMessage)
          /\ hideLoadingMessage(1)
          /\ lastOutcome' = Outcome("analyzeText", FALSE, "none", "error")
          /\ UNCHANGED resultsVars
       \/ \E ok \in BOOLEAN, body \in Bodies :
            IF ~ok \/ body \in {"Unparsable", "Null"}
            THEN \* a thrown Error, a rejected json(), or data.success of null
                 /\ showError(TextFailedMessage)
                 /\ hideLoadingMessage(1)
                 /\ lastOutcome' = Outcome("analyzeText", ok, body, "error")
                 /\ UNCHANGED resultsVars
            ELSE /\ displayResults(body)
                 /\ IF BodySuccess(body) THEN UNCHANGED loadingVars ELSE hideLoadingMessage(1)
                 /\ lastOutcome' = Outcome("analyzeText", ok, body,
                        IF BodySuccess(body) THEN "results" ELSE "error")
    /\ UNCHANGED <<tabVars, lastRequest, healthTips, buttonVars>>
    /\ UNCHANGED notWeb

NextWeb ==
    \/ \E button \in TabButtons : SwitchTab(button)
    \/ LoadHealthTips
    \/ \E trigger \in Triggers, url \in UrlInputs, text \in TextInputs :
          AnalyzeRecipeStart(trigger, url, text)
    \/ \E i \in 1..MaxAnalyses : AnalyzeRecipeSettled(i)
    \/ \E text \in TextInputs : AnalyzeTextStart(text)
    \/ \E i \in 1..MaxAnalyses : AnalyzeTextSettled(i)

RecipeAnalysisShowsResults ==
    (lastOutcome.ok /\ lastOutcome.body = "RecipeAnalysis")
        => lastOutcome.outcome = "results"

-----------------------------------------------------------------------------
(* Web front-end: the ingredient list, as displayResults and as            *)
(* displayAllIngredients render it (static/script.js).                     *)

\* health_score of an ingredient of the API: an integer from 0 to 10
Scores == 0..10

RenderInit ==
    /\ ingredientItems = <<>>
    /\ renderedBy = "none"

\* ingredient.health_score || 5 : 0 is falsy
ScoreOrDefault(score) == IF score = 0 THEN 5 ELSE score

\* displayResults: healthClass of an ingredient
DisplayResultsClass(score) ==
    LET healthScore == ScoreOrDefault(score)
    IN IF healthScore >= 7 THEN "healthy"
       ELSE IF healthScore >= 5 THEN "neutral"
       ELSE "unhealthy"

\* displayAllIngredients: the class added to the item
DisplayAllIngredientsClass(score) ==
    LET health_score == ScoreOrDefault(score)
    IN IF health_score >= 7 THEN "healthy"
       ELSE IF health_score >= 4 THEN "neutral"
       ELSE "unhealthy"

\* displayAllIngredients: the colour of the badge, from the score as received
BadgeColor(score) ==
    IF score >= 7 THEN "#28a745"
    ELSE IF score >= 4 THEN "#ffc107"
    ELSE "#dc3545"

\* displayResults renders data.all_ingredients
DisplayResultsIngredients(all_ingredients) ==
    /\ ingredientItems' =
          [k \in DOMAIN all_ingredients |->
              [health_score |-> all_ingredients[k],
               class |-> DisplayResultsClass(all_ingredients[k]),
               shown |-> ScoreOrDefault(all_ingredients[k]),
               color |-> "none"]]
    /\ renderedBy' = "displayResults"
    /\ UNCHANGED notRender

\* displayAllIngredients(ingredients)
DisplayAllIngredients(ingredients) ==
    /\ ingredientItems' =
          [k \in DOMAIN ingredients |->
              [health_score |-> ingredients[k],
               class |-> DisplayAllIngredientsClass(ingredients[k]),
               shown |-> ingredients[k],
               color |-> BadgeColor(ingredients[k])]]
    /\ renderedBy' = "displayAllIngredients"
    /\ UNCHANGED notRender

NextRender ==
    \/ \E all_ingredients \in SeqsUpTo(Scores, MaxIngredients) :
          DisplayResultsIngredients(all_ingredients)
    \/ \E ingredients \in SeqsUpTo(Scores, MaxIngredients) :
          DisplayAllIngredients(ingredients)

\* C3: every rendered ingredient carries the class of its score: healthy from 7,
\* neutral from 4 to 6, unhealthy below 4, whichever function rendered it.
IngredientClassFollowsThresholds ==
    \A k \in DOMAIN ingredientItems :
        ingredientItems[k].class =
            IF ingredientItems[k].health_score >= 7 THEN "healthy"
            ELSE IF ingredientItems[k].health_score >= 4 THEN "neutral"
            ELSE "unhealthy"

-----------------------------------------------------------------------------
(* Content script: the extractRecipe message (content.js), and the same    *)
(* listener of the older content script (unnamed/part_004).                *)

\* content.js extractIngredients: the selectors, in the order they are tried
IngredientSelectors ==
    <<".recipe-ingredient", ".ingredient", ".ingredients li",
      "[data-testid=\"ingredient\"]", "[data-ingredient]", ".ingredient-item",
      ".recipe-ingredients-list li", "ul[data-testid=\"ingredients\"] li",
      ".ingredients-section li", ".ah-ingredient", ".allerhande-ingredient">>

\* part_004 extractRecipeFromPage: its selectors
OldIngredientSelectors ==
    <<".recipe-ingredient", ".ingredient", ".ingredients li", "[data-ingredient]",
      ".recipe-ingredients li">>

\* the selectors the pages of the model have elements for
PageSelectors ==
    {".recipe-ingredient", ".ingredients li", ".recipe-ingredients li",
     ".allerhande-ingredient"}

\* texts of page elements: blank, an ingredient line, a paragraph of 200 characters
ElementBlank == <<" ", "\n">>
ElementLine == <<" ", "2", " ", "u", "i", "e", "n">>
ElementLong == [k \in 1..200 |-> "x"]
ElementTexts == {ElementBlank, ElementLine, ElementLong}

NoResponse == [script |-> "none", success |-> FALSE, ingredients |-> <<>>]

NoQuickResult == [score |-> 0, color |-> "none"]

ContentInit ==
    /\ pageElements = [sel \in PageSelectors |-> <<>>]
    /\ extractResponse = NoResponse
    /\ quickResult = NoQuickResult

\* document.querySelectorAll(selector), as texts
QuerySelectorAll(selector) ==
    IF selector \in DOMAIN pageElements THEN pageElements[selector] ELSE <<>>

RECURSIVE ElementCount(_)
\* the elements of the page that match one of the selectors in sels
ElementCount(sels) ==
    IF sels = {} THEN 0
    ELSE LET sel == CHOOSE x \in sels : TRUE
         IN Len(pageElements[sel]) + ElementCount(sels \ {sel})

\* the page gains an element matching an ingredient selector
AddElement(selector, text) ==
    /\ ElementCount(PageSelectors) < MaxElements
    /\ pageElements' = [pageElements EXCEPT ![selector] = Append(@, text)]
    /\ UNCHANGED <<extractResponse, quickResult, notContent>>

RECURSIVE FilterLines(_, _)
\* Array.prototype.filter over trimmed texts: length > 0 && length < 200
FilterLines(texts, k) ==
    IF k > Len(texts) THEN <<>>
    ELSE LET text == Trim(texts[k])
         IN (IF Len(text) > 0 /\ Len(text) < 200 THEN <<text>> ELSE <<>>)
            \o FilterLines(texts, k + 1)

\* content.js extractIngredients: the first selector, in order, whose elements
\* leave a line after trimming and filtering; none: the empty list
RECURSIVE extractIngredients(_)
extractIngredients(k) ==
    IF k > Len(IngredientSelectors) THEN <<>>
    ELSE LET elements == QuerySelectorAll(IngredientSelectors[k])
             ingredients == FilterLines(elements, 1)
         IN IF Len(elements) > 0 /\ Len(ingredients) > 0
            THEN ingredients
            ELSE extractIngredients(k + 1)

\* part_004 extractRecipeFromPage: the first selector with any element wins,
\* its texts trimmed and not filtered
RECURSIVE extractRecipeFromPage(_)
extractRecipeFromPage(k) ==
    IF k > Len(OldIngredientSelectors) THEN <<>>
    ELSE LET elements == QuerySelectorAll(OldIngredientSelectors[k])
         IN IF Len(elements) > 0
            THEN [j \in DOMAIN elements |-> Trim(elements[j])]
            ELSE extractRecipeFromPage(k + 1)

\* content.js handleExtractRecipe: sendResponse({success: true, data: recipeData})
HandleExtractRecipe ==
    /\ extractResponse' = [script |-> "content.js", success |-> TRUE,
                           ingredients |-> extractIngredients(1)]
    /\ UNCHANGED <<pageElements, quickResult, notContent>>

\* part_004 onMessage listener, action extractRecipe
OldHandleExtractRecipe ==
    /\ extractResponse' = [script |-> "part_004", success |-> TRUE,
                           ingredients |-> extractRecipeFromPage(1)]
    /\ UNCHANGED <<pageElements, quickResult, notContent>>

\* part_005 showQuickResult: the colour of the in-page result
QuickResultColor(score) ==
    IF score >= 8 THEN "#4CAF50"
    ELSE IF score >= 6 THEN "#FFC107"
    ELSE IF score >= 4 THEN "#FF9800"
    ELSE "#F44336"

\* part_005 showQuickResult(data), health_score being data.health_score || 0
ShowQuickResult(health_score) ==
    /\ quickResult' = [score |-> health_score, color |-> QuickResultColor(health_score)]
    /\ UNCHANGED <<pageElements, extractResponse, notContent>>

NextContent ==
    \/ \E selector \in PageSelectors, text \in ElementTexts : AddElement(selector, text)
    \/ HandleExtractRecipe
    \/ OldHandleExtractRecipe
    \/ \E health_score \in Scores : ShowQuickResult(health_score)

\* C4: an extraction that found no ingredient line is answered as a failure:
\* no response says success with an empty ingredient list.
EmptyExtractionIsFailure ==
    extractResponse.success => extractResponse.ingredients # <<>>

-----------------------------------------------------------------------------
(* Extension: the pages a tab may show, and isRecipePage.                  *)

\* background.js isRecipePage: recipeIndicators
RecipeIndicators ==
    {<<"r", "e", "c", "e", "p", "t">>,
     <<"r", "e", "c", "i", "p", "e">>,
     <<"a", "l", "l", "e", "r", "h", "a", "n", "d", "e">>,
     <<"j", "u", "m", "b", "o", ".", "c", "o", "m">>,
     <<"l", "e", "u", "k", "e", "r", "e", "c", "e", "p", "t", "e", "n">>,
     <<"2", "4", "k", "i", "t", "c", "h", "e", "n">>,
     <<"a", "h", ".", "n", "l">>,
     <<"c", "o", "o", "k", "p", "a", "d">>,
     <<"s", "m", "u", "l", "w", "e", "b">>,
     <<"f", "o", "o", "d">>,
     <<"k", "e", "u", "k", "e", "n">>,
     <<"e", "t", "e", "n">>,
     <<"c", "o", "o", "k", "i", "n", "g">>,
     <<"i", "n", "g", "r", "e", "d", "i", "e", "n", "t">>,
     <<"b", "e", "r", "e", "i", "d", "i", "n", "g">>,
     <<"k", "o", "o", "k">>,
     <<"g", "e", "r", "e", "c", "h", "t">>}

\* part_000 isRecipePage: recipeIndicators
PopupRecipeIndicators ==
    {<<"r", "e", "c", "e", "p", "t">>,
     <<"r", "e", "c", "i", "p", "e">>,
     <<"c", "o", "o", "k", "i", "n", "g">>,
     <<"k", "o", "o", "k">>,
     <<"g", "e", "r", "e", "c", "h", "t">>,
     <<"i", "n", "g", "r", "e", "d", "i", "e", "n", "t">>,
     <<"b", "e", "r", "e", "i", "d", "i", "n", "g">>,
     <<"a", "l", "l", "e", "r", "h", "a", "n", "d", "e">>,
     <<"j", "u", "m", "b", "o", ".", "c", "o", "m">>,
     <<"l", "e", "u", "k", "e", "r", "e", "c", "e", "p", "t", "e", "n">>,
     <<"2", "4", "k", "i", "t", "c", "h", "e", "n">>,
     <<"a", "h", ".", "n", "l">>,
     <<"c", "o", "o", "k", "p", "a", "d">>,
     <<"s", "m", "u", "l", "w", "e", "b">>,
     <<"f", "o", "o", "d">>,
     <<"k", "e", "u", "k", "e", "n">>,
     <<"e", "t", "e", "n">>}

\* popup.js and part_001 isRecipePage: recipeIndicators
ShortRecipeIndicators ==
    {<<"r", "e", "c", "e", "p", "t">>,
     <<"r", "e", "c", "i", "p", "e">>,
     <<"c", "o", "o", "k", "i", "n", "g">>,
     <<"k", "o", "o", "k">>,
     <<"g", "e", "r", "e", "c", "h", "t">>,
     <<"i", "n", "g", "r", "e", "d", "i", "e", "n", "t">>,
     <<"b", "e", "r", "e", "i", "d", "i", "n", "g">>,
     <<"a", "l", "l", "e", "r", "h", "a", "n", "d", "e">>,
     <<"j", "u", "m", "b", "o", ".", "c", "o", "m">>}

\* "https://ah.nl/recept"
TabUrlRecipe == <<"h", "t", "t", "p", "s", ":", "/", "/", "a", "h", ".", "n", "l", "/", "r", "e", "c", "e", "p", "t">>
\* "file:///Recept"
TabUrlFile == <<"f", "i", "l", "e", ":", "/", "/", "/", "R", "e", "c", "e", "p", "t">>
\* "https://x.nl/"
TabUrlOther == <<"h", "t", "t", "p", "s", ":", "/", "/", "x", ".", "n", "l", "/">>
\* "chrome://x"
TabUrlChrome == <<"c", "h", "r", "o", "m", "e", ":", "/", "/", "x">>

TabUrls == {TabUrlRecipe, TabUrlFile, TabUrlOther, TabUrlChrome}

\* isRecipePage(url) over a list of indicators
UrlHasIndicator(url, indicators) ==
    url # <<>> /\ \E indicator \in indicators : Includes(ToLowerCase(url), indicator)

\* isValidUrl(url) of the popup
isValidUrl(url) ==
    url # <<>> /\ (StartsWith(url, HttpPrefix) \/ StartsWith(url, HttpsPrefix))

-----------------------------------------------------------------------------
(* Extension popup: analyzeCurrentPage in its three versions               *)
(*   part_000 : the popup that tries several endpoints                     *)
(*   popup.js : one endpoint, status checked                               *)
(*   part_001 : one endpoint, status not checked                           *)

PopupVariants == {"part_000", "popup.js", "part_001"}

\* part_000 tryMultipleEndpoints: endpoints, in the order of the loop
Endpoints == <<"/extension/analyze", "/chrome/analyze", "/analyze">>

\* bodies an analyze endpoint of the extension may answer with
\*   Summary    : {success: true, data} with the fields the popup prints
\*                (recipe_title, health_score, total_ingredients, top_ingredients)
\*   Analysis   : {success: true, data: RecipeAnalysis} (all_ingredients, swaps, ...;
\*                no top_ingredients)
\*   Failure    : {success: false, error: string}
\*   Detail     : {detail: string}
\*   Unparsable : not JSON
PopupBodies == {"Summary", "Analysis", "Failure", "Detail", "Unparsable"}

\* what a fetch of the popup settles with: a rejection, or a response; a non-2xx
\* response does not carry success = true
PopupAnswers ==
    {[kind |-> "reject", ok |-> FALSE, body |-> "none"]}
    \cup {[kind |-> "response", ok |-> TRUE, body |-> b] : b \in PopupBodies}
    \cup {[kind |-> "response", ok |-> FALSE, body |-> b] :
              b \in {"Failure", "Detail", "Unparsable"}}

NoPopupRequest == [endpoint |-> "none", url |-> <<>>]
NoPopupOutcome == [variant |-> "none", contacted |-> <<>>, answers |-> <<>>,
                   returned |-> "none", rendered |-> <<>>, message |-> <<>>]

PopupInit ==
    /\ popupVariant = "none"
    /\ popupTabUrl = <<>>
    /\ popupChecked = FALSE
    /\ popupBtnDisabled = TRUE
    /\ popupView = "empty"
    /\ popupMessage = <<>>
    /\ popupAnalyses = <<>>
    /\ lastPopupRequest = NoPopupRequest
    /\ lastPopupOutcome = NoPopupOutcome

\* the popup opens on the active tab: the button is disabled in popup.html
OpenPopup(variant, url) ==
    /\ popupVariant = "none"
    /\ popupVariant' = variant
    /\ popupTabUrl' = url
    /\ UNCHANGED <<popupChecked, popupBtnDisabled, popupView, popupMessage,
                   popupAnalyses, lastPopupRequest, lastPopupOutcome, notPopup>>

\* the popup closes: its document and its pending calls are gone
ClosePopup ==
    /\ popupVariant # "none"
    /\ popupVariant' = "none"
    /\ popupTabUrl' = <<>>
    /\ popupChecked' = FALSE
    /\ popupBtnDisabled' = TRUE
    /\ popupView' = "empty"
    /\ popupMessage' = <<>>
    /\ popupAnalyses' = <<>>
    /\ lastPopupRequest' = NoPopupRequest
    /\ lastPopupOutcome' = NoPopupOutcome
    /\ UNCHANGED notPopup

\* isRecipePage of the loaded popup
PopupIsRecipePage(url) ==
    UrlHasIndicator(url, IF popupVariant = "part_000" THEN PopupRecipeIndicators
                         ELSE ShortRecipeIndicators)

\* checkCurrentPage: the button is enabled on a recipe page only
CheckCurrentPage ==
    /\ popupVariant # "none"
    /\ ~popupChecked
    /\ popupChecked' = TRUE
    /\ popupBtnDisabled' = ~PopupIsRecipePage(popupTabUrl)
    /\ UNCHANGED <<popupVariant, popupTabUrl, popupView, popupMessage, popupAnalyses,
                   lastPopupRequest, lastPopupOutcome, notPopup>>

\* analyzeCurrentPage up to its first await (chrome.tabs.query), started by the
\* button or by Alt+A, neither of which acts while the button is disabled
PopupAnalyzeStart ==
    /\ popupVariant # "none"
    /\ ~popupBtnDisabled
    /\ popupBtnDisabled' = TRUE
    /\ popupView' = "loading"
    /\ popupAnalyses' = Append(popupAnalyses,
                               [pc |-> "query", contacted |-> <<>>, answers |-> <<>>])
    /\ UNCHANGED <<popupVariant, popupTabUrl, popupChecked, popupMessage,
                   lastPopupRequest, lastPopupOutcome, notPopup>>

\* the texts of the popup's error views
UnsupportedPage == "Deze pagina wordt niet ondersteund"
AllEndpointsFailed == "Alle API endpoints faalden. Controleer de internetverbinding."
ApiCallFailed == "API call failed"
AnalysisFailed == "Analysis failed"
\* result.error of a Failure body; error.message of a rejected fetch, of a
\* rejected response.json(), of a TypeError
BodyErrorText == "result.error"
FetchErrorText == "Failed to fetch"
JsonErrorText == "SyntaxError"
TypeErrorText == "TypeError"

\* analyzeCurrentPage returns: the views it rendered, then its finally block
PopupReturn(i, contacted, answers, returned, rendered, message) ==
    /\ popupAnalyses' = RemoveAt(popupAnalyses, i)
    /\ popupView' = rendered[Len(rendered)]
    /\ popupMessage' = message
    /\ popupBtnDisabled' = FALSE
    /\ lastPopupOutcome' =
          [variant |-> popupVariant, contacted |-> contacted, answers |-> answers,
           returned |-> returned, rendered |-> rendered, message |-> message]

\* the endpoint the popup asks first
FirstEndpoint == IF popupVariant = "part_000" THEN Endpoints[1] ELSE "/chrome/analyze"

\* chrome.tabs.query has answered: the url check of part_000 and popup.js, then
\* the first fetch
PopupTabQueried(i) ==
    /\ i \in DOMAIN popupAnalyses
    /\ popupAnalyses[i].pc = "query"
    /\ IF popupVariant # "part_001" /\ ~isValidUrl(popupTabUrl)
       THEN /\ PopupReturn(i, <<>>, <<>>, "none", <<"error">>, <<UnsupportedPage>>)
            /\ UNCHANGED lastPopupRequest
       ELSE /\ popupAnalyses' = [popupAnalyses EXCEPT ![i] =
                   [pc |-> "fetch", contacted |-> <<FirstEndpoint>>, answers |-> <<>>]]
            /\ lastPopupRequest' = [endpoint |-> FirstEndpoint, url |-> popupTabUrl]
            /\ UNCHANGED <<popupBtnDisabled, popupView, popupMessage, lastPopupOutcome>>
    /\ UNCHANGED <<popupVariant, popupTabUrl, popupChecked, notPopup>>

\* result.success of a parsed body
ResultSuccess(body) == body \in {"Summary", "Analysis"}

\* displayResults(result.data) throws before it writes the view: popup.js and
\* part_001 call data.top_ingredients.map, part_000 defaults every field
DisplayResultsThrows(body) == popupVariant # "part_000" /\ body = "Analysis"

\* part_000 and popup.js, from `if (result.success)` on: the views rendered and
\* the text of the error view
RenderResult(body) ==
    IF ResultSuccess(body)
    THEN IF DisplayResultsThrows(body)
         THEN [rendered |-> <<"error">>, message |-> <<TypeErrorText>>]
         ELSE [rendered |-> <<"results">>, message |-> <<>>]
    ELSE [rendered |-> <<"error">>,
          message |-> <<IF body = "Failure" THEN BodyErrorText ELSE AnalysisFailed>>]

\* popup.js from its fetch on
RenderPopupJs(answer) ==
    IF answer.kind = "reject"
    THEN [rendered |-> <<"error">>, message |-> <<FetchErrorText>>]
    ELSE IF ~answer.ok
    THEN [rendered |-> <<"error">>, message |-> <<ApiCallFailed>>]
    ELSE IF answer.body = "Unparsable"
    THEN [rendered |-> <<"error">>, message |-> <<JsonErrorText>>]
    ELSE RenderResult(answer.body)

\* part_001 from its fetch on: response.ok is not looked at
RenderOldPopup(answer) ==
    IF answer.kind = "reject"
    THEN [rendered |-> <<"error">>, message |-> <<"Netwerkfout: ", FetchErrorText>>]
    ELSE IF answer.body = "Unparsable"
    THEN [rendered |-> <<"error">>, message |-> <<"Netwerkfout: ", JsonErrorText>>]
    ELSE IF ResultSuccess(answer.body)
    THEN IF DisplayResultsThrows(answer.body)
         THEN [rendered |-> <<"error">>, message |-> <<"Netwerkfout: ", TypeErrorText>>]
         ELSE [rendered |-> <<"results">>, message |-> <<>>]
    ELSE [rendered |-> <<"error">>,
          message |-> <<"Fout: ", IF answer.body = "Failure" THEN BodyErrorText
                                  ELSE "undefined">>]

\* EndpointSucceeded with the status check dropped: any response ends the loop
EndpointSucceededAnyStatus(answer) == answer.kind = "response"

\* tryMultipleEndpoints: the endpoint answered 2xx and its body parsed, so the
\* loop returns it
EndpointSucceeded(answer) ==
    answer.kind = "response" /\ answer.ok /\ answer.body # "Unparsable"

\* the pending fetch of a call settles (together with response.json(), which
\* follows it with nothing in between) and the call runs on
PopupEndpointAnswered(i, answer) ==
    /\ i \in DOMAIN popupAnalyses
    /\ popupAnalyses[i].pc = "fetch"
    /\ LET contacted == popupAnalyses[i].contacted
           answers == Append(popupAnalyses[i].answers, answer)
       IN IF popupVariant = "part_000"
          THEN IF EndpointSucceeded(answer)
               THEN \* return result; analyzeCurrentPage goes on
                    /\ PopupReturn(i, contacted, answers, answer.body,
                                   RenderResult(answer.body).rendered,
                                   RenderResult(answer.body).message)
                    /\ UNCHANGED lastPopupRequest
               ELSE IF Len(contacted) < Len(Endpoints)
               THEN \* the next endpoint of the loop
                    /\ popupAnalyses' = [popupAnalyses EXCEPT ![i] =
                          [pc |-> "fetch",
                           contacted |-> Append(contacted, Endpoints[Len(contacted) + 1]),
                           answers |-> answers]]
                    /\ lastPopupRequest' = [endpoint |-> Endpoints[Len(contacted) + 1],
                                            url |-> popupTabUrl]
                    /\ UNCHANGED <<popupBtnDisabled, popupView, popupMessage,
                                   lastPopupOutcome>>
               ELSE \* the loop is over: throw
                    /\ PopupReturn(i, contacted, answers, "threw", <<"error">>,
                                   <<AllEndpointsFailed>>)
                    /\ UNCHANGED lastPopupRequest
          ELSE LET r == IF popupVariant = "popup.js" THEN RenderPopupJs(answer)
                        ELSE RenderOldPopup(answer)
               IN /\ PopupReturn(i, contacted, answers, "none", r.rendered, r.message)
                  /\ UNCHANGED lastPopupRequest
    /\ UNCHANGED <<popupVariant, popupTabUrl, popupChecked, notPopup>>

\* part_000 handleKeyboard, Escape: the error view is removed
PopupEscape ==
    /\ popupVariant = "part_000"
    /\ popupView = "error"
    /\ popupView' = "empty"
    /\ UNCHANGED <<popupVariant, popupTabUrl, popupChecked, popupBtnDisabled,
                   popupMessage, popupAnalyses, lastPopupRequest, lastPopupOutcome,
                   notPopup>>

NextPopup ==
    \/ \E variant \in PopupVariants, url \in TabUrls : OpenPopup(variant, url)
    \/ ClosePopup
    \/ CheckCurrentPage
    \/ PopupAnalyzeStart
    \/ \E i \in DOMAIN popupAnalyses : PopupTabQueried(i)
    \/ \E i \in DOMAIN popupAnalyses, answer \in PopupAnswers :
          PopupEndpointAnswered(i, answer)
    \/ PopupEscape

\* C6: every call of analyzeCurrentPage that returned rendered exactly one view:
\* the results view if and only if an endpoint answered 2xx with success = true,
\* and an error view carrying the body's error text when the 2xx body says
\* success = false.
PopupRendersOneOutcome ==
    LET o == lastPopupOutcome
    IN o.variant # "none" =>
          /\ Len(o.rendered) = 1
          /\ o.rendered[1] \in {"results", "error"}
          /\ o.rendered[1] = "results"
                <=> \E k \in DOMAIN o.answers :
                        /\ o.answers[k].kind = "response"
                        /\ o.answers[k].ok
                        /\ o.answers[k].body \in {"Summary", "Analysis"}
          /\ (/\ o.answers # <<>>
              /\ o.answers[Len(o.answers)].ok
              /\ o.answers[Len(o.answers)].body = "Failure")
                => \E k \in DOMAIN o.message : o.message[k] = BodyErrorText

\* an endpoint answered 2xx with a body that parses as JSON
AnsweredJson(answer) ==
    answer.kind = "response" /\ answer.ok /\ answer.body # "Unparsable"

IsPrefix(s, t) == Len(s) <= Len(t) /\ SubSeq(t, 1, Len(s)) = s

\* C9: tryMultipleEndpoints asks /extension/analyze, /chrome/analyze, /analyze in
\* that order, the next one only after the one before has failed; it returns the
\* body of the first endpoint that answers 2xx with parsable JSON, and throws
\* only when all three have failed.
EndpointsTriedInOrder ==
    /\ \A i \in DOMAIN popupAnalyses :
          (popupVariant = "part_000" /\ popupAnalyses[i].pc = "fetch") =>
              /\ IsPrefix(popupAnalyses[i].contacted, Endpoints)
              /\ Len(popupAnalyses[i].answers) = Len(popupAnalyses[i].contacted) - 1
              /\ \A k \in DOMAIN popupAnalyses[i].answers :
                    ~AnsweredJson(popupAnalyses[i].answers[k])
    /\ LET o == lastPopupOutcome
           n == Len(o.answers)
       IN (o.variant = "part_000" /\ o.contacted # <<>>) =>
              /\ IsPrefix(o.contacted, Endpoints)
              /\ n = Len(o.contacted)
              /\ \A k \in 1..(n - 1) : ~AnsweredJson(o.answers[k])
              /\ IF AnsweredJson(o.answers[n])
                 THEN o.returned = o.answers[n].body
                 ELSE o.returned = "threw" /\ n = Len(Endpoints)

\* C9 witness: the first endpoint failed and the second one's body was returned
SecondEndpointReturned ==
    /\ lastPopupOutcome.variant = "part_000"
    /\ lastPopupOutcome.contacted = <<"/extension/analyze", "/chrome/analyze">>
    /\ lastPopupOutcome.returned = "Summary"
    /\ popupView = "results"

-----------------------------------------------------------------------------
(* Background service worker (background.js): the toolbar badge.           *)

\* the tabs of the model
Tabs == {"tab"}

DefaultBadgeColor == "#667eea"

\* setHealthScoreBadge: colors
BadgeColors == [green |-> "#4CAF50", yellow |-> "#FFC107", orange |-> "#FF9800",
                red |-> "#F44336"]

\* data of a quick-check response: health_score is an integer from 0 to 10,
\* badge_color one of the four names, or missing
QuickCheckData ==
    [health_score : 0..10, badge_color : {"green", "yellow", "orange", "red", "none"}]

\* what a quick-check fetch settles with: a rejection (network, abort after the
\* timeout), a non-2xx response, a 2xx response that is not JSON, a 2xx response
\* with data
QuickCheckAnswers ==
    {[kind |-> k, data |-> [health_score |-> 0, badge_color |-> "none"]] :
        k \in {"reject", "status", "unparsable"}}
    \cup {[kind |-> "data", data |-> d] : d \in QuickCheckData}


BgInit ==
    /\ tabUrl = [t \in Tabs |-> <<>>]
    /\ badgeText = [t \in Tabs |-> ""]
    /\ badgeColor = [t \in Tabs |-> DefaultBadgeColor]
    /\ debugMode = TRUE
    /\ activeRequests = <<>>
    /\ lastBgRequest = <<>>

\* background.js isRecipePage
isRecipePage(url) == UrlHasIndicator(url, RecipeIndicators)

\* tabs.onUpdated with status complete: the tab shows url, and handleTabUpdate
\* runs: the recipe badge and (in debug mode) a quick check, or the badge cleared
TabUpdated(tabId, url) ==
    /\ tabUrl' = [tabUrl EXCEPT ![tabId] = url]
    /\ IF isRecipePage(url)
       THEN /\ badgeText' = [badgeText EXCEPT ![tabId] = "plate"]
            /\ badgeColor' = [badgeColor EXCEPT ![tabId] = DefaultBadgeColor]
            /\ IF debugMode
               THEN \* getQuickHealthScore(tab.url, tabId) up to its fetch
                    /\ Len(activeRequests) < MaxQuickChecks
                    /\ activeRequests' = Append(activeRequests,
                                                [tabId |-> tabId, url |-> url])
                    /\ lastBgRequest' = url
               ELSE UNCHANGED <<activeRequests, lastBgRequest>>
       ELSE /\ badgeText' = [badgeText EXCEPT ![tabId] = ""]
            /\ UNCHANGED <<badgeColor, activeRequests, lastBgRequest>>
    /\ UNCHANGED <<debugMode, notBg>>

\* tabs.onActivated: updateBadgeForTab
TabActivated(tabId) ==
    /\ tabUrl[tabId] # <<>>
    /\ IF isRecipePage(tabUrl[tabId])
       THEN /\ badgeText' = [badgeText EXCEPT ![tabId] = "plate"]
            /\ badgeColor' = [badgeColor EXCEPT ![tabId] = DefaultBadgeColor]
       ELSE /\ badgeText' = [badgeText EXCEPT ![tabId] = ""]
            /\ UNCHANGED badgeColor
    /\ UNCHANGED <<tabUrl, debugMode, activeRequests, lastBgRequest, notBg>>

\* setHealthScoreBadge(tabId, score, badgeColor): the colour is looked up by the
\* name the response carries
HealthBadgeColor(badge_color) ==
    IF badge_color \in DOMAIN BadgeColors THEN BadgeColors[badge_color]
    ELSE DefaultBadgeColor

\* the fetch of getQuickHealthScore settles and the function runs to its end:
\* only 2xx data with health_score > 0 sets the score badge, on the tab the
\* request was started for
QuickCheckAnswered(i, answer) ==
    /\ i \in DOMAIN activeRequests
    /\ activeRequests' = RemoveAt(activeRequests, i)
    /\ IF answer.kind = "data" /\ answer.data.health_score > 0
       THEN /\ badgeText' = [badgeText EXCEPT ![activeRequests[i].tabId] =
                                ToString(answer.data.health_score)]
            /\ badgeColor' = [badgeColor EXCEPT ![activeRequests[i].tabId] =
                                HealthBadgeColor(answer.data.badge_color)]
       ELSE UNCHANGED <<badgeText, badgeColor>>
    /\ UNCHANGED <<tabUrl, debugMode, lastBgRequest, notBg>>

\* handleMessage, action toggleDebug
ToggleDebug ==
    /\ debugMode' = ~debugMode
    /\ UNCHANGED <<tabUrl, badgeText, badgeColor, activeRequests, lastBgRequest,
                   notBg>>

\* handleMessage, action getHealthScore: handleHealthScoreRequest fetches the
\* quick check of request.url
HandleHealthScoreRequest(url) ==
    /\ lastBgRequest' = url
    /\ UNCHANGED <<tabUrl, badgeText, badgeColor, debugMode, activeRequests, notBg>>

NextBg ==
    \/ \E tabId \in Tabs, url \in TabUrls : TabUpdated(tabId, url)
    \/ \E tabId \in Tabs : TabActivated(tabId)
    \/ \E i \in DOMAIN activeRequests, answer \in QuickCheckAnswers :
          QuickCheckAnswered(i, answer)
    \/ ToggleDebug
    \/ \E url \in TabUrls : HandleHealthScoreRequest(url)

\* a url with the scheme the API accepts
HasHttpScheme(url) == StartsWith(url, HttpPrefix) \/ StartsWith(url, HttpsPrefix)

\* C2: no component fetches an analysis or a quick check for a url that does not
\* start with http:// or https:// : not the web front-end, not the popup, not
\* the background worker.
OnlyHttpUrlsAreFetched ==
    /\ lastRequest.endpoint = "/analyse" => HasHttpScheme(lastRequest.payload)
    /\ lastPopupRequest.endpoint # "none" => HasHttpScheme(lastPopupRequest.url)
    /\ lastBgRequest # <<>> => HasHttpScheme(lastBgRequest)

\* C7: the badge of a tab has a text only while the tab shows a recipe page, also
\* when the answer to a quick check arrives after the tab has moved on.
BadgeOnlyOnRecipePages ==
    \A tabId \in Tabs : badgeText[tabId] # "" => isRecipePage(tabUrl[tabId])

\* the colour of a score: green from 8, yellow for 6 and 7, orange for 4 and 5,
\* red below 4
ScoreColour(score) ==
    IF score >= 8 THEN BadgeColors.green
    ELSE IF score >= 6 THEN BadgeColors.yellow
    ELSE IF score >= 4 THEN BadgeColors.orange
    ELSE BadgeColors.red

\* C8: the colour shown with a health score is the colour of that score, on the
\* toolbar badge and on the in-page quick result.
ColourFollowsScore ==
    /\ \A tabId \in Tabs, score \in Scores :
          badgeText[tabId] = ToString(score) => badgeColor[tabId] = ScoreColour(score)
    /\ quickResult.color # "none" => quickResult.color = ScoreColour(quickResult.score)

-----------------------------------------------------------------------------
(* The API's request pipeline, after section 4.6 of the specification: the *)
(* code of the API is not part of the sources.                             *)

Stages == <<"Received", "Fetching", "Extracting", "Parsing", "Scoring",
            "Aggregating", "Responded">>

TerminalStages == {"Responded", "Failed"}

\* position of a stage in the pipeline
StageRank(stage) == CHOOSE k \in DOMAIN Stages : Stages[k] = stage

ApiInit == requests = <<>>

\* NextStage with a retry: a request whose parsing is done extracts again
NextStageWithRetry(source, stage) ==
    IF stage = "Received" /\ source = "text" THEN "Extracting"
    ELSE IF stage = "Parsing" THEN "Extracting"
    ELSE Stages[StageRank(stage) + 1]

\* the stage after stage: a text request has nothing to fetch
NextStage(source, stage) ==
    IF stage = "Received" /\ source = "text" THEN "Extracting"
    ELSE Stages[StageRank(stage) + 1]

\* a request arrives
ApiReceive(source) ==
    /\ Len(requests) < MaxRequests
    /\ requests' = Append(requests, [source |-> source, stage |-> "Received"])
    /\ UNCHANGED notApi

\* a request finishes its stage and enters the next one
ApiAdvance(r) ==
    /\ r \in DOMAIN requests
    /\ requests[r].stage \notin TerminalStages
    /\ requests' = [requests EXCEPT ![r].stage = NextStage(requests[r].source, @)]
    /\ UNCHANGED notApi

\* a request fails at its stage
ApiFail(r) ==
    /\ r \in DOMAIN requests
    /\ requests[r].stage \notin TerminalStages
    /\ requests' = [requests EXCEPT ![r].stage = "Failed"]
    /\ UNCHANGED notApi

NextApi ==
    \/ \E source \in {"url", "text"} : ApiReceive(source)
    \/ \E r \in 1..MaxRequests : ApiAdvance(r)
    \/ \E r \in 1..MaxRequests : ApiFail(r)

-----------------------------------------------------------------------------
(* The API layer's admission of analysis requests, after sections 4.6, 5   *)
(* and 7 of the specification and the "api" block of the configuration:    *)
(* a request budget per client and window, and a ceiling on the analyses   *)
(* in flight. The code of the API layer is not part of the sources.        *)

\* config api.rate_limit_requests
RateLimitRequests == 8
\* config api.max_concurrent_requests
MaxConcurrentRequests == 5

Clients == {"a", "b"}

NoGateAnswer == [client |-> "none", answer |-> "none"]

GateInit ==
    /\ received = 0
    /\ requestCounts = [c \in Clients |-> 0]
    /\ gateAnswer = NoGateAnswer
    /\ waiting = 0
    /\ fetching = 0
    /\ working = 0

\* BudgetLeft that lets one request more through
BudgetLeftInclusive(client) == requestCounts[client] <= RateLimitRequests

\* the client has not used its budget of the current window
BudgetLeft(client) == requestCounts[client] < RateLimitRequests

\* SlotFree that lets one analysis more start
SlotFreeInclusive == fetching + working <= MaxConcurrentRequests

\* fewer analyses are in flight than the ceiling allows
SlotFree == fetching + working < MaxConcurrentRequests

\* a request of a client arrives: it is counted and accepted while the client
\* has budget left, and rejected before any pipeline work otherwise
GateArrive(client) ==
    /\ received < MaxReceived
    /\ received' = received + 1
    /\ IF BudgetLeft(client)
       THEN /\ requestCounts' = [requestCounts EXCEPT ![client] = @ + 1]
            /\ gateAnswer' = [client |-> client, answer |-> "accepted"]
            /\ waiting' = waiting + 1
       ELSE /\ gateAnswer' = [client |-> client, answer |-> "RateLimitExceeded"]
            /\ UNCHANGED <<requestCounts, waiting>>
    /\ UNCHANGED <<fetching, working>>
    /\ UNCHANGED notGate

\* an accepted request takes a free slot: a URL request goes to the Fetcher,
\* a text request straight to extraction
GateStart(source) ==
    /\ waiting > 0
    /\ SlotFree
    /\ waiting' = waiting - 1
    /\ IF source = "url"
       THEN fetching' = fetching + 1 /\ UNCHANGED working
       ELSE working' = working + 1 /\ UNCHANGED fetching
    /\ UNCHANGED <<received, requestCounts, gateAnswer>>
    /\ UNCHANGED notGate

\* the Fetcher returns the page of an analysis
GateFetched ==
    /\ fetching > 0
    /\ fetching' = fetching - 1
    /\ working' = working + 1
    /\ UNCHANGED <<received, requestCounts, gateAnswer, waiting>>
    /\ UNCHANGED notGate

\* the Fetcher fails: the analysis ends with a FetchError and frees its slot
GateFetchFailed ==
    /\ fetching > 0
    /\ fetching' = fetching - 1
    /\ UNCHANGED <<received, requestCounts, gateAnswer, waiting, working>>
    /\ UNCHANGED notGate

\* an analysis responds or fails after fetching, and frees its slot
GateFinished ==
    /\ working > 0
    /\ working' = working - 1
    /\ UNCHANGED <<received, requestCounts, gateAnswer, waiting, fetching>>
    /\ UNCHANGED notGate

\* the rate-limit window ends: the counts start again
WindowBoundary ==
    /\ \E c \in Clients : requestCounts[c] > 0
    /\ requestCounts' = [c \in Clients |-> 0]
    /\ UNCHANGED <<received, gateAnswer, waiting, fetching, working>>
    /\ UNCHANGED notGate

NextGate ==
    \/ \E client \in Clients : GateArrive(client)
    \/ \E source \in {"url", "text"} : GateStart(source)
    \/ GateFetched
    \/ GateFetchFailed
    \/ GateFinished
    \/ WindowBoundary

-----------------------------------------------------------------------------
(* The Nutrition Resolver scoring the ingredients of one analysis, after   *)
(* sections 4.4, 5 and 7 of the specification and the "health_scoring"     *)
(* block of the configuration. Its code is not part of the sources.        *)

\* config health_scoring.default_unknown_score
DefaultUnknownScore == 5

\* the external nutrition database: "xyz" is a name it does not know
NutritionDatabase ==
    [ui |-> [facts |-> "ui per 100g", health_score |-> 8],
     room |-> [facts |-> "room per 100g", health_score |-> 3]]

IngredientNameSet == {"ui", "room", "xyz"}

\* how a lookup of the database can end
LookupOutcomes == {"found", "nomatch", "timeout", "unavailable"}

NotResolved == [name |-> "", lookup |-> "pending", facts |-> "null", health_score |-> 0]

ResolverInit ==
    /\ scoringStatus = "idle"
    /\ ingredientNames = <<>>
    /\ scoredIngredients = <<>>
    /\ nutritionCache = {}

\* resolve that scores an ingredient it could not look up as unhealthy
resolveUnknownAsZero(name, lookup) ==
    IF lookup \in {"cache", "found"}
    THEN [name |-> name, lookup |-> lookup,
          facts |-> NutritionDatabase[name].facts,
          health_score |-> NutritionDatabase[name].health_score]
    ELSE [name |-> name, lookup |-> lookup, facts |-> "null", health_score |-> 0]

\* resolve(name): facts and score of the cache or the database, the default
\* score and null facts when the lookup did not succeed
resolve(name, lookup) ==
    IF lookup \in {"cache", "found"}
    THEN [name |-> name, lookup |-> lookup,
          facts |-> NutritionDatabase[name].facts,
          health_score |-> NutritionDatabase[name].health_score]
    ELSE [name |-> name, lookup |-> lookup, facts |-> "null",
          health_score |-> DefaultUnknownScore]

\* the scoring stage of an analysis starts on its parsed ingredients
ScoringStart(names) ==
    /\ scoringStatus # "scoring"
    /\ names # <<>>
    /\ scoringStatus' = "scoring"
    /\ ingredientNames' = names
    /\ scoredIngredients' = [i \in DOMAIN names |-> NotResolved]
    /\ UNCHANGED nutritionCache
    /\ UNCHANGED notResolver

\* the lookup of one ingredient ends; the lookups of one recipe run in any order
ResolveIngredient(i, outcome) ==
    /\ scoringStatus = "scoring"
    /\ i \in DOMAIN ingredientNames
    /\ scoredIngredients[i] = NotResolved
    /\ outcome = "found" => ingredientNames[i] \in DOMAIN NutritionDatabase
    /\ LET name == ingredientNames[i]
           lookup == IF name \in nutritionCache THEN "cache" ELSE outcome
       IN /\ scoredIngredients' = [scoredIngredients EXCEPT ![i] = resolve(name, lookup)]
          /\ nutritionCache' = IF lookup = "found" THEN nutritionCache \cup {name}
                               ELSE nutritionCache
    /\ UNCHANGED <<scoringStatus, ingredientNames>>
    /\ UNCHANGED notResolver

\* every ingredient is resolved: the analysis is aggregated and answered
ScoringRespond ==
    /\ scoringStatus = "scoring"
    /\ \A i \in DOMAIN scoredIngredients : scoredIngredients[i] # NotResolved
    /\ scoringStatus' = "responded"
    /\ UNCHANGED <<ingredientNames, scoredIngredients, nutritionCache>>
    /\ UNCHANGED notResolver

NextResolver ==
    \/ \E names \in SeqsUpTo(IngredientNameSet, MaxIngredients) : ScoringStart(names)
    \/ \E i \in 1..MaxIngredients, outcome \in LookupOutcomes : ResolveIngredient(i, outcome)
    \/ ScoringRespond

-----------------------------------------------------------------------------
(* displayHealthExplanation of static/script.js. An explanation line is    *)
(* what the function asks of it: whether it includes the marker of the     *)
(* less healthy ingredients, and whether it includes that of the healthy   *)
(* ones. The statements are taken as the function's layout groups them:    *)
(* the block of the healthy button follows the if of the unhealthy one.    *)

Explanations == [unhealthyMarker : BOOLEAN, healthyMarker : BOOLEAN]

\* answers of GET /health: openai_available true, false, or no usable answer
HealthAnswers == {"available", "unavailable", "failed"}

ExplainInit ==
    /\ explanationItems = <<>>
    /\ healthChecks = <<>>
    /\ openaiConfirmed = FALSE

\* the item created for one explanation line, with the buttons appended to it
\* before forEach moves on
ExplanationItem(explanation) ==
    [unhealthyMarker |-> explanation.unhealthyMarker,
     healthyMarker |-> explanation.healthyMarker,
     buttons |-> IF explanation.healthyMarker THEN {"healthy"} ELSE {}]

\* displayHealthExplanation(explanations): the container is emptied, so the
\* items that fetches still in flight refer to leave the document
DisplayHealthExplanation(explanations) ==
    /\ LET unhealthy == {i \in DOMAIN explanations : explanations[i].unhealthyMarker}
           started == SelectSeq([k \in 1..Len(explanations) |-> [item |-> k, attached |-> TRUE]],
                                LAMBDA check : check.item \in unhealthy)
           detached == [k \in DOMAIN healthChecks |->
                            [healthChecks[k] EXCEPT !.attached = FALSE]]
       IN /\ Len(healthChecks) + Len(started) <= MaxHealthChecks
          /\ explanationItems' = [i \in DOMAIN explanations |-> ExplanationItem(explanations[i])]
          /\ healthChecks' = detached \o started
    /\ UNCHANGED openaiConfirmed
    /\ UNCHANGED notExplain

\* a fetch of /health settles: with openai_available the button of the less
\* healthy ingredients is appended to the item the fetch was started for
HealthAnswered(k, answer) ==
    /\ k \in DOMAIN healthChecks
    /\ LET check == healthChecks[k]
       IN explanationItems' =
              IF answer = "available" /\ check.attached
              THEN [explanationItems EXCEPT ![check.item].buttons = @ \cup {"unhealthy"}]
              ELSE explanationItems
    /\ healthChecks' = RemoveAt(healthChecks, k)
    /\ openaiConfirmed' = (openaiConfirmed \/ answer = "available")
    /\ UNCHANGED notExplain

NextExplain ==
    \/ \E explanations \in SeqsUpTo(Explanations, MaxExplanations) :
          DisplayHealthExplanation(explanations)
    \/ \E k \in 1..MaxHealthChecks, answer \in HealthAnswers : HealthAnswered(k, answer)

-----------------------------------------------------------------------------
(* Recipe-page detection: isRecipePage of the background worker, of the    *)
(* popup (unnamed/part_000 and popup.js) and of the content script, each   *)
(* applied to the page its component looks at.                             *)

\* the sites the README lists as supported: "https://ah.nl/allerhande",
\* "https://jumbo.com/recepten", "https://leukerecepten.nl/", "https://24kitchen.nl/"
SupportedSiteUrls ==
    {<<"h", "t", "t", "p", "s", ":", "/", "/", "a", "h", ".", "n", "l", "/", "a", "l", "l", "e", "r", "h", "a", "n", "d", "e">>,
     <<"h", "t", "t", "p", "s", ":", "/", "/", "j", "u", "m", "b", "o", ".", "c", "o", "m", "/", "r", "e", "c", "e", "p", "t", "e", "n">>,
     <<"h", "t", "t", "p", "s", ":", "/", "/", "l", "e", "u", "k", "e", "r", "e", "c", "e", "p", "t", "e", "n", ".", "n", "l", "/">>,
     <<"h", "t", "t", "p", "s", ":", "/", "/", "2", "4", "k", "i", "t", "c", "h", "e", "n", ".", "n", "l", "/">>}

\* document.title of a page: "Home" or "Recept"
PageTitles == {<<"H", "o", "m", "e">>, <<"R", "e", "c", "e", "p", "t">>}

Detectors == {"background.js", "part_000", "popup.js", "content.js"}

NotDetected == [url |-> <<>>, title |-> <<>>, recipe |-> FALSE]

DetectInit == detected = [d \in Detectors |-> NotDetected]

\* isRecipePage as the component has it; the content script also looks at the title
DetectorIsRecipePage(detector, url, title) ==
    CASE detector = "background.js" -> isRecipePage(url)
      [] detector = "part_000" -> UrlHasIndicator(url, PopupRecipeIndicators)
      [] detector = "popup.js" -> UrlHasIndicator(url, ShortRecipeIndicators)
      [] detector = "content.js" ->
            \E indicator \in PopupRecipeIndicators :
                \/ Includes(ToLowerCase(url), indicator)
                \/ Includes(ToLowerCase(title), indicator)

\* a component checks the page it looks at: handleTabUpdate, checkCurrentPage
\* of the popup, checkForRecipePage of the content script
DetectPage(detector, url, title) ==
    /\ detected' = [detected EXCEPT ![detector] =
                       [url |-> url, title |-> title,
                        recipe |-> DetectorIsRecipePage(detector, url, title)]]
    /\ UNCHANGED notDetect

\* the titles a component can see: only the content script reads the title
TitlesSeenBy(detector) == IF detector = "content.js" THEN PageTitles ELSE {<<>>}

NextDetect ==
    \E detector \in Detectors, url \in SupportedSiteUrls \cup {TabUrlOther} :
        \E title \in TitlesSeenBy(detector) :
            DetectPage(detector, url, title)

-----------------------------------------------------------------------------
(* The floating analyze button of content.js: created on recipe pages,     *)
(* shown and hidden by toggleFloatingButton messages, removed by the       *)
(* cleanup of beforeunload; its click sends a message to the background    *)
(* worker (background.js, handleMessage).                                  *)

MaxTimers == 2
MaxClicks == 2

NoClickAnswer == [success |-> FALSE, error |-> "none"]

\* the actions handleMessage of background.js has a case for
BackgroundActions == {"getHealthScore", "toggleDebug", "ping"}

\* handleMessage: what the worker passes to sendResponse, by request.action
handleMessage(action) ==
    IF action \in BackgroundActions
    THEN [success |-> TRUE, error |-> ""]
    ELSE [success |-> FALSE, error |-> "Unknown action"]

FloatInit ==
    /\ contentStage = "loading"
    /\ floatingButton = FALSE
    /\ buttonsAttached = 0
    /\ clickListener = FALSE
    /\ buttonDisplay = ""
    /\ buttonAnalyzing = FALSE
    /\ recheckTimers = 0
    /\ sentMessages = <<>>
    /\ clickAnswer = NoClickAnswer
    /\ notification = ""

floatButtonVars == <<floatingButton, buttonsAttached, clickListener, buttonDisplay, buttonAnalyzing>>

\* createFloatingButton: nothing when this.floatingButton is set
createFloatingButton ==
    IF floatingButton
    THEN UNCHANGED floatButtonVars
    ELSE /\ floatingButton' = TRUE
         /\ buttonsAttached' = buttonsAttached + 1
         /\ clickListener' = TRUE
         /\ buttonDisplay' = ""
         /\ buttonAnalyzing' = FALSE

\* checkForRecipePage; isRecipe is what isRecipePage answers for the page shown
checkForRecipePage(isRecipe) ==
    IF isRecipe THEN createFloatingButton ELSE UNCHANGED floatButtonVars

\* onPageReady: the listeners are registered and the page is checked
OnPageReady(isRecipe) ==
    /\ contentStage = "loading"
    /\ contentStage' = "ready"
    /\ checkForRecipePage(isRecipe)
    /\ UNCHANGED <<recheckTimers, sentMessages, clickAnswer, notification, notFloat>>

\* popstateHandler: the re-check is scheduled one second later
PopState ==
    /\ contentStage = "ready"
    /\ recheckTimers < MaxTimers
    /\ recheckTimers' = recheckTimers + 1
    /\ UNCHANGED <<contentStage, floatButtonVars, sentMessages, clickAnswer, notification, notFloat>>

\* the timeout of popstateHandler fires (also after the cleanup: it is never cleared)
RecheckFires(isRecipe) ==
    /\ recheckTimers > 0
    /\ recheckTimers' = recheckTimers - 1
    /\ checkForRecipePage(isRecipe)
    /\ UNCHANGED <<contentStage, sentMessages, clickAnswer, notification, notFloat>>

\* handleToggleFloatingButton, reached through the message listener
HandleToggleFloatingButton(show) ==
    /\ contentStage = "ready"
    /\ IF show /\ ~floatingButton THEN createFloatingButton
       ELSE IF ~show /\ floatingButton
            THEN buttonDisplay' = "none"
                 /\ UNCHANGED <<floatingButton, buttonsAttached, clickListener, buttonAnalyzing>>
       ELSE IF show /\ floatingButton
            THEN buttonDisplay' = "block"
                 /\ UNCHANGED <<floatingButton, buttonsAttached, clickListener, buttonAnalyzing>>
       ELSE UNCHANGED floatButtonVars
    /\ UNCHANGED <<contentStage, recheckTimers, sentMessages, clickAnswer, notification, notFloat>>

\* performCleanup on beforeunload: every cleanup function runs: the listeners
\* go, the button leaves the document; this.floatingButton is not reset
PerformCleanup ==
    /\ contentStage = "ready"
    /\ contentStage' = "cleaned"
    /\ clickListener' = FALSE
    /\ buttonsAttached' = IF floatingButton /\ buttonsAttached > 0
                          THEN buttonsAttached - 1 ELSE buttonsAttached
    /\ UNCHANGED <<floatingButton, buttonDisplay, buttonAnalyzing, recheckTimers,
                   sentMessages, clickAnswer, notification, notFloat>>

\* handleFloatingButtonClick: setButtonState('analyzing'), then the message
HandleFloatingButtonClick ==
    /\ buttonsAttached > 0 /\ clickListener /\ buttonDisplay # "none"
    /\ Len(sentMessages) < MaxClicks
    /\ buttonAnalyzing' = TRUE
    /\ sentMessages' = Append(sentMessages, "analyzeRecipe")
    /\ UNCHANGED <<contentStage, floatingButton, buttonsAttached, clickListener,
                   buttonDisplay, recheckTimers, clickAnswer, notification, notFloat>>

\* the worker answers the oldest message, and the callback of the click runs:
\* setButtonState('normal') and the notification of the outcome
BackgroundAnswers ==
    /\ sentMessages # <<>>
    /\ LET response == handleMessage(Head(sentMessages))
       IN /\ clickAnswer' = response
          /\ notification' = IF response.success THEN "success" ELSE "error"
    /\ sentMessages' = Tail(sentMessages)
    /\ buttonAnalyzing' = IF floatingButton THEN FALSE ELSE buttonAnalyzing
    /\ UNCHANGED <<contentStage, floatingButton, buttonsAttached, clickListener,
                   buttonDisplay, recheckTimers, notFloat>>

\* showNotification: the notification removes itself after 4 seconds
NotificationExpires ==
    /\ notification # ""
    /\ notification' = ""
    /\ UNCHANGED <<contentStage, floatButtonVars, recheckTimers, sentMessages, clickAnswer, notFloat>>

NextFloat ==
    \/ \E isRecipe \in BOOLEAN : OnPageReady(isRecipe)
    \/ PopState
    \/ \E isRecipe \in BOOLEAN : RecheckFires(isRecipe)
    \/ \E show \in BOOLEAN : HandleToggleFloatingButton(show)
    \/ PerformCleanup
    \/ HandleFloatingButtonClick
    \/ BackgroundAnswers
    \/ NotificationExpires

-----------------------------------------------------------------------------
(* API-origin detection of the popup (popup.js:3-51, part_000:755-797):    *)
(* getApiUrlFromConfig is called by the constructor, not awaited, and      *)
(* again, awaited, by the DOMContentLoaded handler of init; each run       *)
(* fetches /health of the URLs of defaultUrls in order.                    *)

MaxOriginAnalyses == 2

defaultUrls == <<"https://silverfood-analyzer.your-username.repl.co", "http://localhost:5000">>

Runs == {"constructor", "init"}

NotStarted == 0
Returned == Len(defaultUrls) + 1

\* the state after new SilverfoodPopup(): the run of the constructor awaits
\* its first fetch, the handler of init has not run yet
OriginInit ==
    /\ apiUrl = "undefined"
    /\ runIndex = [run \in Runs |-> IF run = "constructor" THEN 1 ELSE NotStarted]
    /\ okAnswered = {}
    /\ notOkAnswered = {}
    /\ listenersSet = FALSE
    /\ analysisOrigins = <<>>
    /\ openedWebApp = ""

\* DOMContentLoaded: the handler of init starts its run and awaits it
DomContentLoaded ==
    /\ runIndex["init"] = NotStarted
    /\ runIndex' = [runIndex EXCEPT !["init"] = 1]
    /\ UNCHANGED <<apiUrl, okAnswered, notOkAnswered, listenersSet, analysisOrigins,
                   openedWebApp, notOrigin>>

\* a fetch of /health of a run settles; ok is response.ok (a rejected fetch
\* is caught and counts as not ok). When the run of init returns, the
\* handler goes on to setupEventListeners.
HealthFetchSettled(run, ok) ==
    LET i == runIndex[run]
    IN /\ i \in DOMAIN defaultUrls
       /\ IF ok
          THEN /\ apiUrl' = defaultUrls[i]
               /\ okAnswered' = okAnswered \cup {i}
               /\ notOkAnswered' = notOkAnswered
               /\ runIndex' = [runIndex EXCEPT ![run] = Returned]
          ELSE /\ okAnswered' = okAnswered
               /\ notOkAnswered' = notOkAnswered \cup {i}
               /\ runIndex' = [runIndex EXCEPT ![run] = i + 1]
               /\ apiUrl' = IF i = Len(defaultUrls) THEN defaultUrls[1] ELSE apiUrl
       /\ listenersSet' = (listenersSet \/ (run = "init" /\ runIndex'[run] = Returned))
       /\ UNCHANGED <<analysisOrigins, openedWebApp, notOrigin>>

\* click on #analyzeBtn: analyzeCurrentPage fetches `${this.apiUrl}/chrome/analyze`
AnalyzeClicked ==
    /\ listenersSet
    /\ Len(analysisOrigins) < MaxOriginAnalyses
    /\ analysisOrigins' = Append(analysisOrigins, apiUrl)
    /\ UNCHANGED <<apiUrl, runIndex, okAnswered, notOkAnswered, listenersSet,
                   openedWebApp, notOrigin>>

\* click on #openWebApp: chrome.tabs.create({url: this.apiUrl})
OpenWebAppClicked ==
    /\ listenersSet
    /\ openedWebApp' = apiUrl
    /\ UNCHANGED <<apiUrl, runIndex, okAnswered, notOkAnswered, listenersSet,
                   analysisOrigins, notOrigin>>

NextOrigin ==
    \/ DomContentLoaded
    \/ \E run \in Runs, ok \in BOOLEAN : HealthFetchSettled(run, ok)
    \/ AnalyzeClicked
    \/ OpenWebAppClicked

-----------------------------------------------------------------------------
(* The health goals of the web front-end (script.js:1292-1454): the goal   *)
(* items are rendered in the order stored in localStorage and reordered by *)
(* drag and drop. The model has the first three of the ten goals.          *)

GoalKeys == <<"general_health", "weight_loss", "muscle_building">>

GoalKeySet == {GoalKeys[k] : k \in DOMAIN GoalKeys}

\* the scores a healthGoals object gives a goal: 0 stands for none
GoalScoreValues == {0, 6}

NullOrder == <<"null">>

GoalsInit ==
    /\ displayedGoals = <<>>
    /\ goalScores = [key \in GoalKeySet |-> 0]
    /\ storedOrder = NullOrder
    /\ draggedElement = "null"
    /\ lastOver = "null"
    /\ dropped = FALSE

\* the elements of seq that satisfy keep, in order
RECURSIVE FilterKeys(_, _)
FilterKeys(seq, keep) ==
    IF seq = <<>> THEN <<>>
    ELSE (IF Head(seq) \in keep THEN <<Head(seq)>> ELSE <<>>) \o FilterKeys(Tail(seq), keep)

KeysOf(seq) == {seq[k] : k \in DOMAIN seq}

\* position of key in seq
IndexOfKey(seq, key) == CHOOSE k \in DOMAIN seq : seq[k] = key

\* seq with element inserted before position k (appended when k is past the end)
InsertBefore(seq, k, element) ==
    SubSeq(seq, 1, k - 1) \o <<element>> \o SubSeq(seq, k, Len(seq))

\* displayHealthGoals: the keys of the items it appends, in order: the stored
\* order (all keys when nothing is stored), then the keys it lacks, each kept
\* when healthGoals[key] is truthy
RenderedGoals(order, healthGoals) ==
    LET saved == IF order = NullOrder THEN GoalKeys ELSE order
        goalOrder == saved \o FilterKeys(GoalKeys, GoalKeySet \ KeysOf(saved))
    IN FilterKeys(goalOrder, {key \in GoalKeySet : healthGoals[key] # 0})

\* displayHealthGoals(healthGoals)
DisplayHealthGoals(healthGoals) ==
    /\ draggedElement = "null"
    /\ goalScores' = healthGoals
    /\ displayedGoals' = RenderedGoals(storedOrder, healthGoals)
    /\ UNCHANGED <<storedOrder, draggedElement, lastOver, dropped, notGoals>>

\* handleDragStart on a goal item
HandleDragStart(key) ==
    /\ draggedElement = "null"
    /\ key \in KeysOf(displayedGoals)
    /\ draggedElement' = key
    /\ lastOver' = "null"
    /\ dropped' = FALSE
    /\ UNCHANGED <<displayedGoals, goalScores, storedOrder, notGoals>>

\* getDragAfterElement for a pointer in the upper or lower half of the item
\* target: the position, among the items that are not dragged, of the first
\* item whose middle lies below the pointer (past the end: none, null)
DragAfterPosition(target, half) ==
    LET others == FilterKeys(displayedGoals, KeysOf(displayedGoals) \ {draggedElement})
    IN IF target = draggedElement
       THEN IndexOfKey(displayedGoals, draggedElement)
       ELSE IndexOfKey(others, target) + (IF half = "upper" THEN 0 ELSE 1)

\* handleDragOver on the goal item target: the dragged item is inserted
\* before the item getDragAfterElement finds, or appended
HandleDragOver(target, half) ==
    /\ draggedElement # "null" /\ ~dropped
    /\ target \in KeysOf(displayedGoals)
    /\ LET others == FilterKeys(displayedGoals, KeysOf(displayedGoals) \ {draggedElement})
       IN displayedGoals' = InsertBefore(others, DragAfterPosition(target, half), draggedElement)
    /\ lastOver' = target
    /\ UNCHANGED <<goalScores, storedOrder, draggedElement, dropped, notGoals>>

\* saveGoalsOrder: the keys of the container's children
saveGoalsOrder == storedOrder' = displayedGoals

\* handleDrop on the goal item under the pointer, the one whose dragover ran last
HandleDrop ==
    /\ draggedElement # "null" /\ ~dropped
    /\ lastOver # "null"
    /\ dropped' = TRUE
    /\ IF draggedElement # lastOver THEN saveGoalsOrder ELSE UNCHANGED storedOrder
    /\ UNCHANGED <<displayedGoals, goalScores, draggedElement, lastOver, notGoals>>

\* handleDragEnd: after the drop, or with no drop when the item is released
\* outside the goal items
HandleDragEnd ==
    /\ draggedElement # "null"
    /\ draggedElement' = "null"
    /\ UNCHANGED <<displayedGoals, goalScores, storedOrder, lastOver, dropped, notGoals>>

NextGoals ==
    \/ \E healthGoals \in [GoalKeySet -> GoalScoreValues] : DisplayHealthGoals(healthGoals)
    \/ \E key \in GoalKeySet : HandleDragStart(key)
    \/ \E target \in GoalKeySet, half \in {"upper", "lower"} : HandleDragOver(target, half)
    \/ HandleDrop
    \/ HandleDragEnd

-----------------------------------------------------------------------------
(* The request tracking of the background worker (background.js):          *)
(* getQuickHealthScore enters its AbortController and timeout in the Map   *)
(* this.activeRequests under the key `${tabId}_${Date.now()}`;             *)
(* cleanupTabData and performGlobalCleanup cancel through the Map.         *)

MaxTracked == 3
MaxClock == 1

\* tab ids: 1 is a decimal prefix of 12
TabIds == {1, 12}

DigitChars == <<"0", "1", "2", "3", "4", "5", "6", "7", "8", "9">>

\* `${n}`: the decimal digits of n
RECURSIVE Digits(_)
Digits(n) ==
    IF n < 10 THEN <<DigitChars[n + 1]>>
    ELSE Digits(n \div 10) \o <<DigitChars[(n % 10) + 1]>>

\* `${tabId}_${Date.now()}`
RequestId(tabId, now) == Digits(tabId) \o <<"_">> \o Digits(now)

\* a prefix without the separator
TabPrefixBare(tabId) ==
    Digits(tabId)

\* `${tabId}_`: the prefix cleanupTabData looks for
TabPrefix(tabId) ==
    Digits(tabId) \o <<"_">>

TrackInit ==
    /\ openTabs = TabIds
    /\ clock = 0
    /\ quickChecks = <<>>
    /\ trackedRequests = [k \in {} |-> 0]
    /\ badgeCalls = {}

\* Map.set and Map.delete
MapSet(map, key, value) ==
    [k \in DOMAIN map \cup {key} |-> IF k = key THEN value ELSE map[k]]

MapDelete(map, keys) == [k \in DOMAIN map \ keys |-> map[k]]

\* time passes
ClockTick ==
    /\ clock < MaxClock
    /\ clock' = clock + 1
    /\ UNCHANGED <<openTabs, quickChecks, trackedRequests, badgeCalls, notTrack>>

\* getQuickHealthScore up to its await of fetch
GetQuickHealthScore(tabId) ==
    /\ tabId \in openTabs
    /\ Len(quickChecks) < MaxTracked
    /\ LET requestId == RequestId(tabId, clock)
       IN /\ quickChecks' = Append(quickChecks,
                 [tabId |-> tabId, requestId |-> requestId, stage |-> "fetching",
                  aborted |-> FALSE, timeout |-> TRUE])
          /\ trackedRequests' = MapSet(trackedRequests, requestId, Len(quickChecks) + 1)
    /\ UNCHANGED <<openTabs, clock, badgeCalls, notTrack>>

\* the fetch of call r resolves: clearTimeout, delete(requestId); with
\* response.ok the call goes on to await response.json()
QuickFetchResolved(r, ok) ==
    /\ r \in DOMAIN quickChecks
    /\ quickChecks[r].stage = "fetching" /\ ~quickChecks[r].aborted
    /\ quickChecks' = [quickChecks EXCEPT ![r].timeout = FALSE,
                                          ![r].stage = IF ok THEN "parsing" ELSE "done"]
    /\ trackedRequests' = MapDelete(trackedRequests, {quickChecks[r].requestId})
    /\ UNCHANGED <<openTabs, clock, badgeCalls, notTrack>>

\* the fetch of call r rejects (network error, or abort): catch, delete(requestId)
QuickFetchRejected(r) ==
    /\ r \in DOMAIN quickChecks
    /\ quickChecks[r].stage = "fetching"
    /\ quickChecks' = [quickChecks EXCEPT ![r].stage = "done"]
    /\ trackedRequests' = MapDelete(trackedRequests, {quickChecks[r].requestId})
    /\ UNCHANGED <<openTabs, clock, badgeCalls, notTrack>>

\* the 5-second timeout of call r fires: controller.abort()
QuickTimeoutFired(r) ==
    /\ r \in DOMAIN quickChecks
    /\ quickChecks[r].timeout
    /\ quickChecks' = [quickChecks EXCEPT ![r].timeout = FALSE, ![r].aborted = TRUE]
    /\ UNCHANGED <<openTabs, clock, trackedRequests, badgeCalls, notTrack>>

\* response.json() of call r settles; an aborted call gets a rejection; with
\* health_score > 0 setHealthScoreBadge(tabId, ...) is called
QuickBodyParsed(r, health_score) ==
    /\ r \in DOMAIN quickChecks
    /\ quickChecks[r].stage = "parsing"
    /\ quickChecks' = [quickChecks EXCEPT ![r].stage = "done"]
    /\ badgeCalls' = IF ~quickChecks[r].aborted /\ health_score > 0
                     THEN badgeCalls \cup {[tabId |-> quickChecks[r].tabId,
                                            removed |-> quickChecks[r].tabId \notin openTabs]}
                     ELSE badgeCalls
    /\ UNCHANGED <<openTabs, clock, trackedRequests, notTrack>>

\* the entries a cleanup cancels: clearTimeout and controller.abort() for the
\* call each of the keys holds
CancelCalls(keys) ==
    [r \in DOMAIN quickChecks |->
        IF \E k \in keys : trackedRequests[k] = r
        THEN [quickChecks[r] EXCEPT !.timeout = FALSE, !.aborted = TRUE]
        ELSE quickChecks[r]]

\* chrome.tabs.onRemoved: cleanupTabData(tabId)
CleanupTabData(tabId) ==
    /\ tabId \in openTabs
    /\ openTabs' = openTabs \ {tabId}
    /\ LET keys == {k \in DOMAIN trackedRequests : StartsWith(k, TabPrefix(tabId))}
       IN /\ quickChecks' = CancelCalls(keys)
          /\ trackedRequests' = MapDelete(trackedRequests, keys)
    /\ UNCHANGED <<clock, badgeCalls, notTrack>>

\* chrome.runtime.onSuspend: performGlobalCleanup
PerformGlobalCleanup ==
    /\ DOMAIN trackedRequests # {}
    /\ quickChecks' = CancelCalls(DOMAIN trackedRequests)
    /\ trackedRequests' = [k \in {} |-> 0]
    /\ UNCHANGED <<openTabs, clock, badgeCalls, notTrack>>

NextTrack ==
    \/ ClockTick
    \/ \E tabId \in TabIds : GetQuickHealthScore(tabId)
    \/ \E r \in 1..MaxTracked, ok \in BOOLEAN : QuickFetchResolved(r, ok)
    \/ \E r \in 1..MaxTracked : QuickFetchRejected(r)
    \/ \E r \in 1..MaxTracked : QuickTimeoutFired(r)
    \/ \E r \in 1..MaxTracked, health_score \in {0, 7} : QuickBodyParsed(r, health_score)
    \/ \E tabId \in TabIds : CleanupTabData(tabId)
    \/ PerformGlobalCleanup

MoreInit == GateInit /\ ResolverInit /\ ExplainInit /\ DetectInit /\ FloatInit /\ OriginInit
            /\ GoalsInit /\ TrackInit

Init == WebInit /\ RenderInit /\ ContentInit /\ PopupInit /\ BgInit /\ ApiInit /\ MoreInit

SpecWeb == Init /\ [][NextWeb]_vars
SpecRender == Init /\ [][NextRender]_vars
SpecContent == Init /\ [][NextContent]_vars
SpecPopup == Init /\ [][NextPopup]_vars
SpecBg == Init /\ [][NextBg]_vars
SpecApi == Init /\ [][NextApi]_vars
SpecGate == Init /\ [][NextGate]_vars
SpecResolver == Init /\ [][NextResolver]_vars
SpecExplain == Init /\ [][NextExplain]_vars
SpecDetect == Init /\ [][NextDetect]_vars
SpecFloat == Init /\ [][NextFloat]_vars
SpecOrigin == Init /\ [][NextOrigin]_vars
SpecGoals == Init /\ [][NextGoals]_vars
SpecTrack == Init /\ [][NextTrack]_vars

\* a request moved to the next stage of the pipeline, or failed
StepsForward(before, after) ==
    \/ after.stage = "Failed"
    \/ /\ after.stage \in {Stages[k] : k \in DOMAIN Stages}
       /\ StageRank(after.stage) > StageRank(before.stage)

\* C10: a request only moves forward through Received, Fetching (url requests
\* only), Extracting, Parsing, Scoring, Aggregating, Responded; it can fail at
\* every stage before the end; once Responded or Failed it moves no more.
RequestsOnlyMoveForward ==
    /\ [](\A r \in DOMAIN requests :
            /\ requests[r].stage = "Fetching" => requests[r].source = "url"
            /\ requests[r].stage \notin TerminalStages => ENABLED ApiFail(r))
    /\ [][\A r \in DOMAIN requests :
            requests'[r] # requests[r] =>
                /\ requests[r].stage \notin TerminalStages
                /\ requests'[r].source = requests[r].source
                /\ StepsForward(requests[r], requests'[r])]_vars

\* C10 witness: a url request has gone through every stage and another request
\* has failed on the way
RequestRespondedAndRequestFailed ==
    \E r, q \in DOMAIN requests :
        /\ requests[r] = [source |-> "url", stage |-> "Responded"]
        /\ requests[q].stage = "Failed"

\* C11: a request of a client that has used its budget of the current window
\* is answered with RateLimitExceeded, and no request joins the accepted ones
\* or reaches the Fetcher in that step.
BudgetUsedIsRejected ==
    [][\A c \in Clients :
          (received' = received + 1 /\ gateAnswer'.client = c
             /\ requestCounts[c] >= RateLimitRequests)
          => /\ gateAnswer'.answer = "RateLimitExceeded"
             /\ waiting' = waiting
             /\ fetching' = fetching
             /\ working' = working]_vars

\* C11 witness: a client has been answered RateLimitExceeded after it used
\* its budget, while an analysis of an earlier request is at the Fetcher
RateLimitExceededAnswered ==
    /\ gateAnswer.answer = "RateLimitExceeded"
    /\ requestCounts[gateAnswer.client] = RateLimitRequests
    /\ fetching > 0

\* C13: the analyses in flight never exceed the ceiling.
InFlightWithinCeiling == fetching + working <= MaxConcurrentRequests

\* C13 witness: the ceiling is reached and an accepted request waits
CeilingReachedAndWaiting ==
    /\ fetching + working = MaxConcurrentRequests
    /\ fetching > 0
    /\ working > 0
    /\ waiting > 0

\* the lookups that did not yield facts
FailedLookups == {"nomatch", "timeout", "unavailable"}

\* C12: an ingredient whose lookup failed, timed out or found nothing has the
\* default score 5 and null facts; a scoring that has started is scoring or
\* responded, and the response holds every ingredient of the recipe, in order.
FailedLookupGetsDefault ==
    /\ \A i \in DOMAIN scoredIngredients :
          scoredIngredients[i].lookup \in FailedLookups
          => /\ scoredIngredients[i].health_score = DefaultUnknownScore
             /\ scoredIngredients[i].facts = "null"
    /\ scoringStatus = "responded"
       => /\ Len(scoredIngredients) = Len(ingredientNames)
          /\ \A i \in DOMAIN ingredientNames :
                scoredIngredients[i].name = ingredientNames[i]
    /\ (\E i \in DOMAIN scoredIngredients : scoredIngredients[i].lookup \in FailedLookups)
       => ENABLED (ScoringRespond \/ \E i \in 1..MaxIngredients, outcome \in LookupOutcomes :
                                          ResolveIngredient(i, outcome))
          \/ scoringStatus = "responded"

\* C12 witness: an analysis has responded with one ingredient resolved from the
\* database and one whose lookup timed out
RespondedWithFailedLookup ==
    /\ scoringStatus = "responded"
    /\ \E i, j \in DOMAIN scoredIngredients :
          /\ scoredIngredients[i].lookup = "timeout"
          /\ scoredIngredients[j].lookup = "found"

SupportedSitesAreRecipePages ==
    /\ \A d \in Detectors :
          detected[d].url \in SupportedSiteUrls => detected[d].recipe
    /\ \A d, e \in Detectors :
          (detected[d].url \in SupportedSiteUrls /\ detected[e].url = detected[d].url)
          => detected[e].recipe = detected[d].recipe
\* the lines that survive trimming and the length filter among the elements of
\* the first selector, in the order of selectors, that has such a line
LinesOfFirstYielding(selectors) ==
    LET yielding == {k \in DOMAIN selectors :
                        FilterLines(QuerySelectorAll(selectors[k]), 1) # <<>>}
    IN IF yielding = {} THEN <<>>
       ELSE LET first == CHOOSE k \in yielding : \A j \in yielding : k <= j
            IN FilterLines(QuerySelectorAll(selectors[first]), 1)

\* C18: an extraction answers with the lines of the first selector of its
\* list that yields a non-empty line shorter than 200 characters, whatever the
\* later selectors match.
ExtractionTakesFirstYielding ==
    [][extractResponse' # extractResponse
       => extractResponse'.ingredients =
              LinesOfFirstYielding(IF extractResponse'.script = "content.js"
                                   THEN IngredientSelectors
                                   ELSE OldIngredientSelectors)]_vars

\* the same of content.js alone
ContentJsTakesFirstYielding ==
    [][(extractResponse' # extractResponse /\ extractResponse'.script = "content.js")
       => extractResponse'.ingredients = LinesOfFirstYielding(IngredientSelectors)]_vars

\* C16: the click on the floating button is never answered with 'Unknown
\* action': the action the content script sends is one the worker handles
ClickNeverAnsweredUnknownAction ==
    clickAnswer # NoClickAnswer => clickAnswer.error # "Unknown action"

\* C17: at most one floating button is attached to the page, and
\* this.floatingButton is non-null exactly when the button is attached
FloatingButtonMatchesDocument ==
    /\ buttonsAttached <= 1
    /\ floatingButton <=> buttonsAttached = 1

\* the first half of C17 alone
AtMostOneButtonAttached == buttonsAttached <= 1

\* the result of the detection: the first URL of the list whose /health
\* answered ok, the first entry when none did
FirstOkOrDefault ==
    IF okAnswered = {} THEN defaultUrls[1]
    ELSE defaultUrls[CHOOSE i \in okAnswered : \A j \in okAnswered : i <= j]

PicksFirstOkOnEqualAnswers ==
    (okAnswered \cap notOkAnswered = {} /\ \A run \in Runs : runIndex[run] = Returned)
        => apiUrl = FirstOkOrDefault

\* the second half of C19 alone
ApiUrlDefinedBeforeAnalysis ==
    \A k \in DOMAIN analysisOrigins : analysisOrigins[k] # "undefined"

\* one tab button and one tab pane carry 'active', and the pane is the one
\* the button names
OneTabActive ==
    \E button \in TabButtons :
        activeButtons = {button} /\ activePanes = {dataTab(button)}

DragOrderIsPersisted ==
    [][(draggedElement # "null" /\ draggedElement' = "null" /\ dropped)
         => RenderedGoals(storedOrder', goalScores') = displayedGoals']_vars

\* the same for the drags that are dropped on another item than the dragged one
DropOnOtherItemIsPersisted ==
    [][(draggedElement # "null" /\ draggedElement' = "null" /\ dropped
          /\ lastOver # draggedElement)
         => /\ storedOrder' = displayedGoals'
            /\ RenderedGoals(storedOrder', goalScores') = displayedGoals']_vars

\* C22: activeRequests holds exactly the quick checks in flight: every entry
\* holds a call that awaits its fetch, under that call's requestId, and every
\* call that awaits its fetch and is not aborted has its own entry
TrackedAreTheInFlight ==
    /\ \A k \in DOMAIN trackedRequests :
          /\ quickChecks[trackedRequests[k]].stage = "fetching"
          /\ quickChecks[trackedRequests[k]].requestId = k
    /\ \A r \in DOMAIN quickChecks :
          (quickChecks[r].stage = "fetching" /\ ~quickChecks[r].aborted)
              => /\ quickChecks[r].requestId \in DOMAIN trackedRequests
                 /\ trackedRequests[quickChecks[r].requestId] = r

\* C22 for calls whose keys differ
TrackedAreTheInFlightOnDistinctKeys ==
    (\A r1, r2 \in DOMAIN quickChecks :
        r1 # r2 => quickChecks[r1].requestId # quickChecks[r2].requestId)
        => TrackedAreTheInFlight

\* C23: cleanupTabData(tabId) aborts and removes exactly the tracked requests
\* of the removed tab: their entries go, their controllers are aborted and
\* their timeouts cleared; every other call and entry is left as it was
CleanupTouchesOnlyTheTab ==
    [][openTabs' # openTabs =>
        LET tabId == CHOOSE t \in openTabs \ openTabs' : TRUE
            held == {trackedRequests[k] : k \in DOMAIN trackedRequests}
        IN /\ \A k \in DOMAIN trackedRequests :
                LET r == trackedRequests[k]
                IN IF quickChecks[r].tabId = tabId
                   THEN /\ k \notin DOMAIN trackedRequests'
                        /\ quickChecks'[r].aborted /\ ~quickChecks'[r].timeout
                   ELSE /\ k \in DOMAIN trackedRequests' /\ trackedRequests'[k] = r
                        /\ quickChecks'[r] = quickChecks[r]
           /\ \A r \in DOMAIN quickChecks : r \notin held => quickChecks'[r] = quickChecks[r]
           /\ DOMAIN trackedRequests' \subseteq DOMAIN trackedRequests]_vars

\* tab 1 was removed with a request in flight, and a request of tab 12 is
\* still tracked, not aborted, its timeout pending
OtherTabKeptItsRequest ==
    /\ 1 \notin openTabs
    /\ \E r \in DOMAIN quickChecks :
          quickChecks[r].tabId = 1 /\ quickChecks[r].aborted /\ quickChecks[r].stage = "fetching"
    /\ \E k \in DOMAIN trackedRequests :
          LET r == trackedRequests[k]
          IN quickChecks[r].tabId = 12 /\ ~quickChecks[r].aborted /\ quickChecks[r].timeout

\* C24: setHealthScoreBadge is never called for a tab that has been removed
NoBadgeAfterRemoval == \A call \in badgeCalls : ~call.removed

\* C25: at most one analysis request of analyzeRecipe is in flight, and
\* while one is pending the Analyze button is disabled
AtMostOneAnalysisInFlight ==
    /\ Cardinality({i \in DOMAIN analyses : analyses[i] = "analyzeRecipe"}) <= 1
    /\ (\E i \in DOMAIN analyses : analyses[i] = "analyzeRecipe") => analyzeBtnDisabled

\* an analysis of analyzeRecipe has ended: a panel is shown, the button is
\* enabled with its text, the loader is hidden, no loading message is left
\* and the tips timer is stopped
EndedReset ==
    /\ resultsDisplay = "block" \/ errorDisplay = "block"
    /\ ~analyzeBtnDisabled
    /\ btnText = "Analyseer Recept"
    /\ loaderDisplay = "none"
    /\ loadingMessage = 0
    /\ ~tipInterval

\* C26: every analysis of analyzeRecipe whose request settles ends with the
\* results panel or the error panel shown, the Analyze button enabled, its
\* text 'Analyseer Recept', the loader hidden, the loading message removed
\* and the health-tip timer stopped
SettledAnalysisEndsReset ==
    [][(Len(analyses') < Len(analyses) /\ lastOutcome'.fn = "analyzeRecipe")
         => EndedReset']_vars

\* C26 for an analysis that is the only one pending
LoneAnalysisEndsReset ==
    [][(Len(analyses') < Len(analyses) /\ lastOutcome'.fn = "analyzeRecipe"
          /\ Len(analyses) = 1)
         => EndedReset']_vars
====
